---- MODULE Spec2Model ----
(***************************************************************************)
(* Model of Blockly.TimePicker (src/core/field_time.js): the analog clock  *)
(* picker of the time field, its drag handling, its live-clock timer and   *)
(* its listener registration.                                              *)
(*                                                                         *)
(* Every JavaScript Number of the picker is an IEEE-754 double.  The hand  *)
(* angles are quotients such as minute/60 that are not representable, and  *)
(* the time shown after a drag is a floor() of such values, so the model   *)
(* computes with doubles exactly as the engine does: a double is a record  *)
(* [s, m, e] with value s * m * 2^e, where m is a 53-bit significand kept  *)
(* as a little-endian sequence of 15-bit limbs, and every operation rounds *)
(* to nearest, ties to even.                                               *)
(***************************************************************************)
EXTENDS Integers, Sequences, FiniteSets, Bags, TLC

\* ------------------------------------------------------------------------
\* Natural numbers of arbitrary size: little-endian sequences of limbs in
\* 0..Base-1 without a most significant zero limb (zero is << >>).
\* ------------------------------------------------------------------------
LimbBits == 15
Base == 32768
Precision == 53

Pow2(n) == 2 ^ n

RECURSIVE BNorm(_)
BNorm(a) ==
  IF a = << >> THEN << >>
  ELSE IF a[Len(a)] = 0 THEN BNorm(SubSeq(a, 1, Len(a) - 1))
  ELSE a

BFromInt(n) ==
  BNorm(<< n % Base, (n \div Base) % Base, n \div (Base * Base) >>)

RECURSIVE BToInt(_)
BToInt(a) == IF a = << >> THEN 0 ELSE Head(a) + Base * BToInt(Tail(a))

Limb(a, i) == IF i <= Len(a) THEN a[i] ELSE 0

RECURSIVE BAddC(_, _, _, _)
BAddC(a, b, i, c) ==
  IF i > Len(a) /\ i > Len(b)
  THEN (IF c = 0 THEN << >> ELSE << c >>)
  ELSE LET t == Limb(a, i) + Limb(b, i) + c
       IN  << t % Base >> \o BAddC(a, b, i + 1, t \div Base)

BAdd(a, b) == BAddC(a, b, 1, 0)

\* a - b for a >= b
RECURSIVE BSubC(_, _, _, _)
BSubC(a, b, i, c) ==
  IF i > Len(a) THEN << >>
  ELSE LET t == Limb(a, i) - Limb(b, i) - c
       IN  IF t < 0 THEN << t + Base >> \o BSubC(a, b, i + 1, 1)
                    ELSE << t >> \o BSubC(a, b, i + 1, 0)

BSub(a, b) == BNorm(BSubC(a, b, 1, 0))

\* -1, 0, 1 as a < b, a = b, a > b (most significant limb first)
RECURSIVE BCmpAt(_, _, _)
BCmpAt(a, b, i) ==
  IF i = 0 THEN 0
  ELSE IF a[i] < b[i] THEN -1
  ELSE IF a[i] > b[i] THEN 1
  ELSE BCmpAt(a, b, i - 1)

BCmp(a, b) ==
  IF Len(a) < Len(b) THEN -1
  ELSE IF Len(a) > Len(b) THEN 1
  ELSE BCmpAt(a, b, Len(a))

\* a * c for 0 <= c < Base
RECURSIVE BMulC(_, _, _, _)
BMulC(a, c, i, k) ==
  IF i > Len(a) THEN (IF k = 0 THEN << >> ELSE << k >>)
  ELSE LET t == a[i] * c + k
       IN  << t % Base >> \o BMulC(a, c, i + 1, t \div Base)

BMulS(a, c) == IF c = 0 THEN << >> ELSE BMulC(a, c, 1, 0)

\* quotient and remainder of a by c, 0 < c < Base (most significant first)
RECURSIVE BDivC(_, _, _, _)
BDivC(a, c, i, r) ==
  IF i = 0 THEN << >>
  ELSE LET t == r * Base + a[i]
       IN  BDivC(a, c, i - 1, t % c) \o << t \div c >>

BDivS(a, c) == BNorm(BDivC(a, c, Len(a), 0))

RECURSIVE BModC(_, _, _, _)
BModC(a, c, i, r) ==
  IF i = 0 THEN r ELSE BModC(a, c, i - 1, (r * Base + a[i]) % c)

BModS(a, c) == BModC(a, c, Len(a), 0)

Zeros(n) == [i \in 1..n |-> 0]

\* a * 2^n
BShl(a, n) ==
  IF a = << >> THEN << >>
  ELSE Zeros(n \div LimbBits) \o BMulS(a, Pow2(n % LimbBits))

\* floor(a / 2^n)
BShr(a, n) ==
  LET q == n \div LimbBits
  IN  IF q >= Len(a) THEN << >>
      ELSE BDivS(SubSeq(a, q + 1, Len(a)), Pow2(n % LimbBits))

\* a mod 2^n
BLow(a, n) ==
  LET q == n \div LimbBits
      r == n % LimbBits
  IN  IF q >= Len(a) THEN a
      ELSE BNorm(SubSeq(a, 1, q) \o << a[q + 1] % Pow2(r) >>)

\* number of significant bits of a
BLen(a) ==
  IF a = << >> THEN 0
  ELSE (Len(a) - 1) * LimbBits
       + (CHOOSE k \in 1..LimbBits : Pow2(k - 1) <= a[Len(a)] /\ a[Len(a)] < Pow2(k))

BOdd(a) == a # << >> /\ a[1] % 2 = 1

\* ------------------------------------------------------------------------
\* IEEE-754 doubles.  s = 1 or -1 for a number, s = 0 for NaN; a number
\* other than zero has Pow2(52) <= m < Pow2(53).
\* ------------------------------------------------------------------------
FZero == [s |-> 1, m |-> << >>, e |-> 0]
NaN == [s |-> 0, m |-> << >>, e |-> 0]

FIsNaN(x) == x.s = 0
FIsZero(x) == x.s # 0 /\ x.m = << >>

\* The double nearest to s * M * 2^e (ties to even); sticky tells that the
\* exact value lies strictly between M * 2^e and (M + 1) * 2^e.
\* FCarry: the rounded significand R may have grown to 54 bits
FCarry(s, R, e) ==
  IF BLen(R) > Precision
  THEN [s |-> s, m |-> BShr(R, 1), e |-> e + 1]
  ELSE [s |-> s, m |-> R, e |-> e]

\* Q is M without its d low bits, c compares those bits with half a unit
FRoundUp(s, Q, e, c, sticky) ==
  FCarry(s, IF c > 0 \/ (c = 0 /\ (sticky \/ BOdd(Q))) THEN BAdd(Q, << 1 >>) ELSE Q, e)

FRoundBits(s, M, e, sticky, n) ==
  IF n = 0 THEN FZero
  ELSE IF n <= Precision
  THEN [s |-> s, m |-> BShl(M, Precision - n), e |-> e - (Precision - n)]
  ELSE FRoundUp(s, BShr(M, n - Precision), e + (n - Precision),
                BCmp(BLow(M, n - Precision), BShl(<< 1 >>, n - Precision - 1)),
                sticky)

FRound(s, M, e, sticky) == FRoundBits(s, M, e, sticky, BLen(M))

Abs(i) == IF i < 0 THEN -i ELSE i
Sgn(i) == IF i < 0 THEN -1 ELSE 1

\* the double of an integer literal or integer result: an integer of
\* less than Precision bits is its own double
FExact(s, M) ==
  [s |-> s, m |-> BShl(M, Precision - BLen(M)), e |-> BLen(M) - Precision]

Num(i) == IF i = 0 THEN FZero ELSE FExact(Sgn(i), BFromInt(Abs(i)))

FNeg(x) == [x EXCEPT !.s = -x.s]

\* sx * X * 2^e + sy * Y * 2^e, where c compares X with Y
FAddAligned(sx, X, sy, Y, e, c) ==
  FRound(IF sx = sy \/ c >= 0 THEN sx ELSE sy,
         IF sx = sy THEN BAdd(X, Y) ELSE IF c >= 0 THEN BSub(X, Y) ELSE BSub(Y, X),
         e, FALSE)

FAddShifted(sx, X, sy, Y, e) ==
  IF sx # sy /\ X = Y THEN FZero ELSE FAddAligned(sx, X, sy, Y, e, BCmp(X, Y))

FAddAt(x, y, e) ==
  FAddShifted(x.s, BShl(x.m, x.e - e), y.s, BShl(y.m, y.e - e), e)

\* x + y
FAdd(x, y) ==
  IF FIsNaN(x) \/ FIsNaN(y) THEN NaN
  ELSE IF FIsZero(x) THEN y
  ELSE IF FIsZero(y) THEN x
  ELSE FAddAt(x, y, IF x.e < y.e THEN x.e ELSE y.e)

\* x - y
FSub(x, y) == FAdd(x, FNeg(y))

\* x * c for an integer c, |c| < Base
FMulI(x, c) ==
  IF FIsNaN(x) THEN NaN
  ELSE IF c = 0 \/ FIsZero(x) THEN FZero
  ELSE FRound(x.s * Sgn(c), BMulS(x.m, Abs(c)), x.e, FALSE)

FQuotient(s, M, e, c) == FRound(s, BDivS(M, c), e, BModS(M, c) # 0)

\* x / c for an integer c, 0 < c < Base
FDivI(x, c) ==
  IF FIsNaN(x) THEN NaN
  ELSE IF FIsZero(x) THEN FZero
  ELSE FQuotient(x.s, BShl(x.m, 2 * LimbBits), x.e - 2 * LimbBits, c)

\* the integer part of |x| and its fraction bits, for a number x
FIntPart(x) == IF x.e >= 0 THEN BShl(x.m, x.e) ELSE BShr(x.m, -x.e)
FFracLen(x) == IF x.e >= 0 THEN 0 ELSE -x.e
FFracBits(x) == BLow(x.m, FFracLen(x))

\* x % c for an integer c, 0 < c < Base (the result has the sign of x)
FModI(x, c) ==
  IF FIsNaN(x) THEN NaN
  ELSE IF FIsZero(x) THEN FZero
  ELSE FRound(x.s,
              BAdd(BShl(BFromInt(BModS(FIntPart(x), c)), FFracLen(x)), FFracBits(x)),
              -FFracLen(x), FALSE)

\* -1, 0, 1 as x < y, x = y, x > y, for numbers x and y
FCmp(x, y) ==
  IF FIsZero(x) THEN (IF FIsZero(y) THEN 0 ELSE -y.s)
  ELSE IF FIsZero(y) THEN x.s
  ELSE IF x.s # y.s THEN x.s
  ELSE IF x.e # y.e THEN (IF x.e > y.e THEN x.s ELSE -x.s)
  ELSE x.s * BCmp(x.m, y.m)

\* x < y, x <= y, x == y of JavaScript: false when either side is NaN
FLt(x, y) == ~FIsNaN(x) /\ ~FIsNaN(y) /\ FCmp(x, y) < 0
FLe(x, y) == ~FIsNaN(x) /\ ~FIsNaN(y) /\ FCmp(x, y) <= 0
FEq(x, y) == ~FIsNaN(x) /\ ~FIsNaN(y) /\ FCmp(x, y) = 0

\* ~~x: the integer part of x toward zero, NaN gives 0
FTrunc(x) ==
  IF FIsNaN(x) \/ FIsZero(x) THEN 0 ELSE x.s * BToInt(FIntPart(x))

\* Math.floor(x) as an integer, for a number x
FFloor(x) ==
  IF FIsZero(x) THEN 0
  ELSE IF x.s > 0 \/ FFracBits(x) = << >> THEN x.s * BToInt(FIntPart(x))
  ELSE -BToInt(FIntPart(x)) - 1

\* the integer value of an integer-valued number
FInt(x) == FTrunc(x)
FIsInt(x) == ~FIsNaN(x) /\ (FIsZero(x) \/ FFracBits(x) = << >>)


\* ------------------------------------------------------------------------
\* The picker (the fields of a Blockly.TimePicker instance), the page it
\* lives in (registered listeners, pending timers, the wall clock) and the
\* text the owning field shows.
\* ------------------------------------------------------------------------
VARIABLES
  isClock, is24H, showSecods,        \* constructor flags (lines 321-323)
  hour, minute, second,              \* the time, JavaScript Numbers
  isPM, isReverseRotate, isDragging, isFiredByMouse,
  touchId,                           \* identifier of the tracked touch, NoTouch for null
  dragTarget,                        \* the hand grabbed at drag start, NoTarget for null
  lastHourDeg, lastMinuteDeg, lastSecondDeg,
  timerId,                           \* id of the last setTimeout, NoTimer for null
  onUpdate,                          \* TRUE when a callback function is installed
  timers,                            \* ids of the pending timeouts of the page
  listeners,                         \* bag of the registered event listeners
  handsInDom,                        \* the hands are children of clockDiv
  editorValue,                       \* text last handed to the field by onUpdate
  updates,                           \* calls of onUpdate during the last step of the picker
  hasTouch,                          \* the platform reports touch support (line 674)
  now,                               \* wall clock, seconds since the picker's day began
  path,                              \* pointers of the drag: the press, then the moves
  began,                             \* the time the picker held at that press
  alerts,                            \* number of alert() calls so far
  value_,                            \* the value of the time field (Blockly.Field value_)
  block,                             \* a block with the advanced-mode mixin, its mutator in it
  part,                              \* which definition of the AdvancedMutator is loaded
  FieldTime                          \* Blockly.FieldTime: its prototype and the fields constructed

vars == << isClock, is24H, showSecods, hour, minute, second, isPM,
           isReverseRotate, isDragging, isFiredByMouse, touchId, dragTarget,
           lastHourDeg, lastMinuteDeg, lastSecondDeg, timerId, onUpdate,
           timers, listeners, handsInDom, editorValue, updates, hasTouch, now,
           path, began, alerts, value_, block, part, FieldTime >>

clock == << hour, minute, second, isPM, lastHourDeg, lastMinuteDeg, lastSecondDeg >>

Hands == {"hourHand", "minuteHand", "secondHand"}
NoTarget == "null"
NoTouch == -1
NoTimer == 0

\* "this" and what the page holds for it, as one record the methods work on
This ==
  [isClock |-> isClock, is24H |-> is24H, showSecods |-> showSecods,
   hour |-> hour, minute |-> minute, second |-> second, isPM |-> isPM,
   isReverseRotate |-> isReverseRotate, isDragging |-> isDragging,
   isFiredByMouse |-> isFiredByMouse, touchId |-> touchId,
   dragTarget |-> dragTarget, lastHourDeg |-> lastHourDeg,
   lastMinuteDeg |-> lastMinuteDeg, lastSecondDeg |-> lastSecondDeg,
   timerId |-> timerId, onUpdate |-> onUpdate, timers |-> timers,
   listeners |-> listeners, handsInDom |-> handsInDom,
   editorValue |-> editorValue, updates |-> 0]

Becomes(t) ==
  /\ isClock' = t.isClock /\ is24H' = t.is24H /\ showSecods' = t.showSecods
  /\ hour' = t.hour /\ minute' = t.minute /\ second' = t.second
  /\ isPM' = t.isPM /\ isReverseRotate' = t.isReverseRotate
  /\ isDragging' = t.isDragging /\ isFiredByMouse' = t.isFiredByMouse
  /\ touchId' = t.touchId /\ dragTarget' = t.dragTarget
  /\ lastHourDeg' = t.lastHourDeg /\ lastMinuteDeg' = t.lastMinuteDeg
  /\ lastSecondDeg' = t.lastSecondDeg /\ timerId' = t.timerId
  /\ onUpdate' = t.onUpdate /\ timers' = t.timers
  /\ listeners' = t.listeners /\ handsInDom' = t.handsInDom
  /\ editorValue' = t.editorValue /\ updates' = t.updates

\* ------------------------------------------------------------------------
\* Static methods
\* ------------------------------------------------------------------------
\* Blockly.TimePicker.getTime and its parts, in whole seconds of the day
getTime(c) == c % 86400
getHours(c) == Num(getTime(c) \div 3600)
getMinutes(c) == Num((getTime(c) \div 60) % 60)
getSeconds(c) == Num(getTime(c) % 60)

sign(n) ==
  IF FIsNaN(n) THEN NaN
  ELSE IF FIsZero(n) THEN Num(0)
  ELSE IF n.s < 0 THEN Num(-1)
  ELSE Num(1)

\* callback.bind(instance) is a new function object on every call; the
\* prototype's own function is the unbound one
Bound(fn) == [fn |-> fn, bound |-> TRUE]
Unbound(fn) == [fn |-> fn, bound |-> FALSE]

Listener(el, ev, cb) == [el |-> el, ev |-> ev, cb |-> cb]

addEvent(t, element, event, callback) ==
  [t EXCEPT !.listeners = @ (+) SetToBag({Listener(element, event, Bound(callback))})]

\* removeEventListener takes out the listener that is the very function passed
removeEvent(t, el, ev, cb) ==
  [t EXCEPT !.listeners = @ (-) SetToBag({Listener(el, ev, cb)})]

\* ------------------------------------------------------------------------
\* Prototype methods
\* ------------------------------------------------------------------------
\* str.slice(-2)
Pad2(str) == IF Len(str) > 2 THEN SubSeq(str, Len(str) - 1, Len(str)) ELSE str

\* String(n) of an integer-valued Number or NaN
NumToString(n) == IF FIsNaN(n) THEN "NaN" ELSE ToString(FInt(n))

\* ('0' + n).slice(-2)
TwoDigits(n) == Pad2("0" \o NumToString(n))

\* h12 == 0 ? 12 : h12, for h12 = this.hour % 12
Hour12(h12) == IF FEq(h12, Num(0)) THEN Num(12) ELSE h12

getTimeString(t) ==
  TwoDigits(IF t.is24H THEN t.hour ELSE Hour12(FModI(t.hour, 12)))
    \o ":" \o TwoDigits(t.minute)
    \o (IF t.showSecods THEN ":" \o TwoDigits(t.second) ELSE "")
    \o (IF t.is24H THEN "" ELSE IF t.isPM THEN " PM" ELSE " AM")

\* FieldTime.onTimeChange_ is the callback: it puts the string in the editor
onUpdateTime(t) ==
  IF t.onUpdate /\ ~t.isClock
  THEN [t EXCEPT !.editorValue = getTimeString(t), !.updates = @ + 1]
  ELSE t

\* the three assignments of updateClock, each from the angle set before it
HourHandSet(t, md) ==
  [t EXCEPT !.lastMinuteDeg = md,
            !.lastHourDeg = FMulI(FAdd(FModI(t.hour, 12), FDivI(md, 360)), 30)]

MinuteHandSet(t, sd) ==
  HourHandSet([t EXCEPT !.lastSecondDeg = sd],
              FMulI(FAdd(t.minute, FDivI(sd, 360)), 6))

updateClock(t) == MinuteHandSet(t, FMulI(t.second, 6))

\* setTimeout returns an id no pending timer has; the picker holds one id
NewTimer(t) == CHOOSE id \in 1..(Cardinality(t.timers) + 2) :
                 id \notin t.timers /\ id # t.timerId

setTimeout(t) ==
  [t EXCEPT !.timerId = NewTimer(t), !.timers = @ \cup {NewTimer(t)}]

\* lines 636-643, after this.second has been read from the wall clock
Rescheduled(t) == IF t.isClock THEN setTimeout(t) ELSE t

MinuteBegun(t, c) ==
  IF FEq(t.second, Num(0))
  THEN onUpdateTime([t EXCEPT !.minute = getMinutes(c), !.hour = getHours(c)])
  ELSE t

drawClockTime(t, c) ==
  updateClock(MinuteBegun(Rescheduled([t EXCEPT !.second = getSeconds(c)]), c))

\* the registrations of bindClockEvents, in source order
MouseBindings ==
  << <<"hourHand", "mousedown", "onMouseDown">>,
     <<"minuteHand", "mousedown", "onMouseDown">>,
     <<"secondHand", "mousedown", "onMouseDown">>,
     <<"document", "mousemove", "onMouseMove">>,
     <<"document", "mouseup", "onMouseUp">> >>

HandTouchBindings(h) ==
  << <<h, "touchstart", "onTouchStart">>, <<h, "touchmove", "onTouchMove">>,
     <<h, "touchcancel", "onTouchEnd">>, <<h, "touchend", "onTouchEnd">> >>

TouchBindings ==
  HandTouchBindings("hourHand") \o HandTouchBindings("minuteHand")
    \o HandTouchBindings("secondHand")

Bindings(touch) == IF touch THEN MouseBindings \o TouchBindings ELSE MouseBindings

RECURSIVE addEvents(_, _)
addEvents(t, bs) ==
  IF bs = << >> THEN t
  ELSE addEvents(addEvent(t, Head(bs)[1], Head(bs)[2], Head(bs)[3]), Tail(bs))

RECURSIVE removeEvents(_, _)
removeEvents(t, bs) ==
  IF bs = << >> THEN t
  ELSE removeEvents(removeEvent(t, Head(bs)[1], Head(bs)[2], Unbound(Head(bs)[3])),
                    Tail(bs))

bindClockEvents(t, touch) == addEvents(t, Bindings(touch))

\* every removeEvent is handed this.onXxx, the prototype's unbound function
unbindClockEvents(t, touch) == removeEvents(t, Bindings(touch))

Appended(t) == [t EXCEPT !.handsInDom = TRUE]

createDOM(t, touch, c) ==
  onUpdateTime(updateClock(
    IF t.isClock THEN drawClockTime(Appended(t), c)
    ELSE bindClockEvents(Appended(t), touch)))

destroy(t, touch) ==
  [unbindClockEvents(t, touch) EXCEPT !.handsInDom = FALSE]

\* clearInterval(id) and clearTimeout(id) cancel the same timers
clearInterval(t, id) == [t EXCEPT !.timers = @ \ {id}]

\* if (!this.showSecods) { this.second = 0; }
SecondsDropped(t) == IF ~t.showSecods THEN [t EXCEPT !.second = Num(0)] ELSE t

\* setClockMode with the timer left pending when the clock stops being live
setClockModeKeepingTimer(t, m, touch, c) ==
  IF m = t.isClock THEN t
  ELSE IF m
  THEN onUpdateTime(drawClockTime(
         [unbindClockEvents(t, touch) EXCEPT !.isClock = m,
                                             !.hour = getHours(c),
                                             !.minute = getMinutes(c)], c))
  ELSE bindClockEvents(SecondsDropped([t EXCEPT !.isClock = m]), touch)

setClockMode(t, m, touch, c) ==
  IF m = t.isClock THEN t
  ELSE IF m
  THEN onUpdateTime(drawClockTime(
         [unbindClockEvents(t, touch) EXCEPT !.isClock = m,
                                             !.hour = getHours(c),
                                             !.minute = getMinutes(c)], c))
  ELSE bindClockEvents(
         clearInterval(SecondsDropped([t EXCEPT !.isClock = m]), t.timerId), touch)

setAM(t) == updateClock([t EXCEPT !.isPM = FALSE])
setPM(t) == updateClock([t EXCEPT !.isPM = TRUE])

\* ------------------------------------------------------------------------
\* Text to Number: isNaN(text) and parseInt(text) for the text the field
\* cuts out of its value (decimal digits, sign, point, blanks, other).
\* ------------------------------------------------------------------------
Digits == {"0", "1", "2", "3", "4", "5", "6", "7", "8", "9"}
DigitVal(ch) == CHOOSE d \in 0..9 : ToString(d) = ch
Ch(str, i) == SubSeq(str, i, i)
Rest(str, i) == SubSeq(str, i, Len(str))

RECURSIVE TrimLeft(_)
TrimLeft(str) ==
  IF Len(str) > 0 /\ Ch(str, 1) = " " THEN TrimLeft(Rest(str, 2)) ELSE str

RECURSIVE TrimRight(_)
TrimRight(str) ==
  IF Len(str) > 0 /\ Ch(str, Len(str)) = " "
  THEN TrimRight(SubSeq(str, 1, Len(str) - 1)) ELSE str

Unsigned(str) ==
  IF Len(str) > 0 /\ Ch(str, 1) \in {"+", "-"} THEN Rest(str, 2) ELSE str

\* number of leading decimal digits of str
RECURSIVE DigitRun(_)
DigitRun(str) ==
  IF Len(str) > 0 /\ Ch(str, 1) \in Digits THEN 1 + DigitRun(Rest(str, 2)) ELSE 0

RECURSIVE DigitsValue(_, _)
DigitsValue(str, acc) ==
  IF Len(str) > 0 /\ Ch(str, 1) \in Digits
  THEN DigitsValue(Rest(str, 2), 10 * acc + DigitVal(Ch(str, 1)))
  ELSE acc

\* StrDecimalLiteral without exponent: digits, digits.digits, digits. or .digits
IsDecimalLiteral(str) ==
  LET u  == Unsigned(str)
      n1 == DigitRun(u)
      r1 == Rest(u, n1 + 1)
      n2 == IF Len(r1) > 0 /\ Ch(r1, 1) = "." THEN DigitRun(Rest(r1, 2)) ELSE 0
  IN  IF r1 = "" THEN n1 > 0
      ELSE Ch(r1, 1) = "." /\ n1 + n2 > 0 /\ Len(r1) = 1 + n2

\* isNaN(text): Number(text) is 0 for blank text and NaN for what is no literal
isNaN(str) ==
  LET tr == TrimRight(TrimLeft(str)) IN ~(tr = "" \/ IsDecimalLiteral(tr))

parseInt(str) ==
  LET tl  == TrimLeft(str)
      neg == Len(tl) > 0 /\ Ch(tl, 1) = "-"
      u   == Unsigned(tl)
  IN  IF DigitRun(u) = 0 THEN NaN
      ELSE Num((IF neg THEN -1 ELSE 1) * DigitsValue(u, 0))

setHours(t, h) ==
  IF ~t.isClock /\ ~isNaN(h)
  THEN updateClock(SecondsDropped([t EXCEPT !.hour = FModI(parseInt(h), 24)]))
  ELSE t

setMinutes(t, m) ==
  IF ~t.isClock /\ ~isNaN(m)
  THEN updateClock(SecondsDropped([t EXCEPT !.minute = FModI(parseInt(m), 60)]))
  ELSE t

setSeconds(t, sc) ==
  IF ~t.isClock /\ ~isNaN(sc)
  THEN updateClock(IF ~t.showSecods THEN [t EXCEPT !.second = Num(0)]
                   ELSE [t EXCEPT !.second = FModI(parseInt(sc), 60)])
  ELSE t

\* ------------------------------------------------------------------------
\* Pointer handling.  A pointer position is given by what the handlers take
\* from it: whether it is the stored centre itself, and the angle
\* -atan2(centerX - x, centerY - y) * 180 / PI in whole degrees, -180..179.
\* ------------------------------------------------------------------------
Pointer(bearing) ==
  [atCentre |-> FALSE, deg |-> IF bearing < 180 THEN bearing ELSE bearing - 360]
CentrePointer == [atCentre |-> TRUE, deg |-> 0]

FAbs(x) == IF FIsNaN(x) THEN NaN ELSE [x EXCEPT !.s = 1]

\* lo < x < hi and lo <= x < hi on Numbers, for integer lo and hi
Within(lo, x, hi) == FLt(Num(lo), x) /\ FLt(x, Num(hi))
From(lo, x, hi) == FLe(Num(lo), x) /\ FLt(x, Num(hi))

\* lines 566-569
ReverseRotate(dif) == Within(160, dif, 200)

onPtrStart(t, p) ==
  [t EXCEPT !.isDragging = TRUE,
            !.isReverseRotate =
              ReverseRotate(FAbs(FSub(Num(p.deg),
                IF t.dragTarget = "hourHand" THEN t.lastHourDeg
                ELSE IF t.dragTarget = "minuteHand" THEN t.lastMinuteDeg
                ELSE t.lastSecondDeg)))]

\* lines 577-584
MoveHourHand(t, deg) ==
  [t EXCEPT !.isPM = IF \/ From(0, deg, 90) /\ Within(270, t.lastHourDeg, 360)
                        \/ From(0, t.lastHourDeg, 90) /\ Within(270, deg, 360)
                     THEN ~t.isPM ELSE t.isPM,
            !.lastHourDeg = deg,
            !.lastMinuteDeg = FMulI(FModI(deg, 30), 12)]

\* the angle left as it is where line 575 adds a full turn to a negative one
Unwrapped(x) == x

\* if (x < 0) { x += 360; }
Positive(x) == IF FLt(x, Num(0)) THEN FAdd(x, Num(360)) ELSE x

\* x < 0 ? x + 360 : x, then % 360 (lines 595-596, 612-615)
Normalized(x) == FModI(Positive(x), 360)

\* the hand at last and the pointer at deg lie on the two sides of the seam
AcrossSeam(last, deg) ==
  \/ Within(270, last, 360) /\ From(0, deg, 90)
  \/ Within(270, deg, 360) /\ From(0, last, 90)

\* d - sign(d) * 360
LessTurn(d) == FSub(d, FMulI(sign(d), 360))

\* the angle the hand is taken to have turned: deg - last, across the seam
\* less a full turn in the direction of its sign
Travel(last, deg, cross) ==
  IF cross THEN LessTurn(FSub(deg, last)) ELSE FSub(deg, last)

\* the minute hand moved without line 590, the toggle of isPM
MinuteHandAtKeepingPM(t, deg, cross, hd) ==
  [t EXCEPT !.lastHourDeg = Normalized(hd), !.lastMinuteDeg = deg]

\* lines 586-598; cross is the condition of line 587, hd the hour angle
\* assigned at line 589 or 593
MinuteHandAt(t, deg, cross, hd) ==
  [t EXCEPT !.isPM = IF cross /\ (FLt(Num(345), hd) \/ FLt(hd, Num(15)))
                     THEN ~t.isPM ELSE t.isPM,
            !.lastHourDeg = Normalized(hd),
            !.lastMinuteDeg = deg]

MinuteHandTurned(t, deg, cross) ==
  MinuteHandAt(t, deg, cross,
               FAdd(t.lastHourDeg, FDivI(Travel(t.lastMinuteDeg, deg, cross), 12)))

MoveMinuteHand(t, deg) == MinuteHandTurned(t, deg, AcrossSeam(t.lastMinuteDeg, deg))

\* lines 600-617; d is the angle the second hand turned
SecondHandAt(t, deg, cross, hd, md) ==
  [t EXCEPT !.isPM = IF cross /\ (FLt(Num(360), hd) \/ FLt(hd, Num(0)))
                     THEN ~t.isPM ELSE t.isPM,
            !.lastHourDeg = Normalized(hd),
            !.lastMinuteDeg = Normalized(md),
            !.lastSecondDeg = deg]

SecondHandBy(t, deg, cross, d) ==
  SecondHandAt(t, deg, cross, FAdd(t.lastHourDeg, FDivI(d, 12 * 60)),
               FAdd(t.lastMinuteDeg, FDivI(d, 60)))

SecondHandTurned(t, deg, cross) ==
  SecondHandBy(t, deg, cross, Travel(t.lastSecondDeg, deg, cross))

MoveSecondHand(t, deg) == SecondHandTurned(t, deg, AcrossSeam(t.lastSecondDeg, deg))

\* Math.floor(x) and ~~x as Numbers
floor(x) == IF FIsNaN(x) THEN NaN ELSE Num(FFloor(x))
ToInt32(x) == Num(FTrunc(x))

\* Math.floor((x - ~~x) * 60)
Sixtieths(x) == floor(FMulI(FSub(x, ToInt32(x)), 60))

\* lines 618-624: the time read back from the hand angles, for
\* sc = 6 * lastMinuteDeg / 36 and mn = 6 * lastHourDeg / 180
TimeRead(t, sc, mn) ==
  [t EXCEPT !.second = Sixtieths(sc), !.minute = Sixtieths(mn),
            !.hour = IF t.isPM THEN FAdd(ToInt32(mn), Num(12)) ELSE ToInt32(mn)]

TimeFromDegrees(t) ==
  TimeRead(t, FDivI(FMulI(t.lastMinuteDeg, 6), 36),
           FDivI(FMulI(t.lastHourDeg, 6), 180))

\* lines 574-575
Reversed(t, deg) == IF t.isReverseRotate THEN FSub(deg, Num(180)) ELSE deg

HandMoved(t, deg) ==
  IF t.dragTarget = "hourHand" THEN MoveHourHand(t, deg)
  ELSE IF t.dragTarget = "minuteHand" THEN MoveMinuteHand(t, deg)
  ELSE IF t.dragTarget = "secondHand" THEN MoveSecondHand(t, deg)
  ELSE t

onPtrMove(t, p) ==
  IF p.atCentre THEN t
  ELSE onUpdateTime(updateClock(TimeFromDegrees(
         HandMoved(t, Positive(Reversed(t, Num(p.deg)))))))

\* An event: its target, the pointer of a mouse event, and of a touch event
\* the number of touches on the surface and the changed touches in order.
MouseEvent(target, p) ==
  [target |-> target, p |-> p, touches |-> 0, changedTouches |-> << >>]
TouchEvent(target, n, changed) ==
  [target |-> target, p |-> CentrePointer, touches |-> n, changedTouches |-> changed]
Touch(id, p) == [identifier |-> id, p |-> p]

\* onMouseDown without the test of line 490
onMouseDownWhileDragging(t, e) ==
  onPtrStart([t EXCEPT !.dragTarget = e.target, !.isFiredByMouse = TRUE], e.p)

onMouseDown(t, e) ==
  IF ~t.isDragging
  THEN onPtrStart([t EXCEPT !.dragTarget = e.target, !.isFiredByMouse = TRUE], e.p)
  ELSE t

\* onMouseMove without the test of line 499
onMouseMoveWhileIdle(t, e) == onPtrMove(t, e.p)

onMouseMove(t, e) ==
  IF t.isDragging /\ t.isFiredByMouse THEN onPtrMove(t, e.p) ELSE t

onMouseUp(t, e) ==
  IF t.isDragging /\ t.isFiredByMouse THEN [t EXCEPT !.isDragging = FALSE] ELSE t

onTouchStart(t, e) ==
  LET t1 == IF t.isDragging /\ ~t.isFiredByMouse /\ e.touches = 1
            THEN [t EXCEPT !.isDragging = FALSE] ELSE t
      touch == e.changedTouches[1]
  IN  IF ~t1.isDragging
      THEN onPtrStart([t1 EXCEPT !.dragTarget = e.target, !.isFiredByMouse = FALSE,
                                 !.touchId = touch.identifier], touch.p)
      ELSE t1

\* the first changed touch with the tracked identifier, 0 when there is none
Tracked(t, e) ==
  LET hits == {i \in 1..Len(e.changedTouches) :
                 e.changedTouches[i].identifier = t.touchId}
  IN  IF hits = {} THEN 0 ELSE CHOOSE i \in hits : \A j \in hits : i <= j

\* onTouchMove without the test of line 533: the first changed touch moves the hand
onTouchMoveOfAnyTouch(t, e) ==
  IF t.isDragging /\ ~t.isFiredByMouse
  THEN onPtrMove(t, e.changedTouches[1].p)
  ELSE t

onTouchMove(t, e) ==
  IF t.isDragging /\ ~t.isFiredByMouse /\ Tracked(t, e) # 0
  THEN onPtrMove(t, e.changedTouches[Tracked(t, e)].p)
  ELSE t

onTouchEnd(t, e) ==
  IF t.isDragging /\ ~t.isFiredByMouse /\ Tracked(t, e) # 0
  THEN [t EXCEPT !.isDragging = FALSE]
  ELSE t

Call(fn, t, e) ==
  CASE fn = "onMouseDown" -> onMouseDown(t, e)
    [] fn = "onMouseMove" -> onMouseMove(t, e)
    [] fn = "onMouseUp" -> onMouseUp(t, e)
    [] fn = "onTouchStart" -> onTouchStart(t, e)
    [] fn = "onTouchMove" -> onTouchMove(t, e)
    [] fn = "onTouchEnd" -> onTouchEnd(t, e)

RECURSIVE CallTimes(_, _, _, _)
CallTimes(fn, t, e, n) == IF n = 0 THEN t ELSE CallTimes(fn, Call(fn, t, e), e, n - 1)

\* The page runs every listener registered on el for ev, once per registration.
RECURSIVE RunListeners(_, _, _)
RunListeners(t, ls, e) ==
  IF ls = {} THEN t
  ELSE LET l == CHOOSE x \in ls : TRUE
       IN  RunListeners(CallTimes(l.cb.fn, t, e, CopiesIn(l, t.listeners)), ls \ {l}, e)

Dispatch(t, el, ev, e) ==
  RunListeners(t, {l \in BagToSet(t.listeners) : l.el = el /\ l.ev = ev}, e)

\* ------------------------------------------------------------------------
\* Construction (lines 318-366, on a platform with CSS transform and canvas)
\* ------------------------------------------------------------------------
Arg(v) == [given |-> TRUE, v |-> v]
Undefined == [given |-> FALSE, v |-> 0]

\* ~~v % n for an integer v: the remainder has the sign of v
Rem(v, n) == IF v >= 0 THEN v % n ELSE -((-v) % n)

\* lines 321-353: the fields the constructor sets before it looks at the
\* platform, and the prototype's values of the others
Fields(isClockA, is24HA, showSecodsA, hourA, minuteA, secondA, c) ==
  LET sec == IF secondA.given THEN Num(Rem(secondA.v, 60)) ELSE getSeconds(c)
  IN  [isClock |-> isClockA, is24H |-> is24HA, showSecods |-> showSecodsA,
       hour |-> IF hourA.given THEN Num(Rem(hourA.v, 24)) ELSE getHours(c),
       minute |-> IF minuteA.given THEN Num(Rem(minuteA.v, 60)) ELSE getMinutes(c),
       second |-> IF ~isClockA /\ ~showSecodsA THEN Num(0) ELSE sec,
       isPM |-> hourA.given /\ hourA.v >= 12,
       isReverseRotate |-> FALSE, isDragging |-> FALSE, isFiredByMouse |-> FALSE,
       touchId |-> NoTouch, dragTarget |-> NoTarget,
       lastHourDeg |-> Num(0), lastMinuteDeg |-> Num(0), lastSecondDeg |-> Num(0),
       timerId |-> NoTimer, onUpdate |-> FALSE, timers |-> {},
       listeners |-> EmptyBag, handsInDom |-> FALSE, editorValue |-> "",
       updates |-> 0]

TimePicker(isClockA, is24HA, showSecodsA, hourA, minuteA, secondA, touch, c) ==
  createDOM(Fields(isClockA, is24HA, showSecodsA, hourA, minuteA, secondA, c),
            touch, c)

\* the first of the five property names that root.style has, "null" if none
TransformProps == << "transform", "MozTransform", "WebkitTransform", "msTransform", "OTransform" >>

getSupportedTransformProp(style) ==
  IF \E i \in 1..Len(TransformProps) : TransformProps[i] \in style
  THEN TransformProps[CHOOSE i \in 1..Len(TransformProps) :
                        /\ TransformProps[i] \in style
                        /\ \A j \in 1..(i - 1) : TransformProps[j] \notin style]
  ELSE "null"

\* lines 355-365 with both tests failing through to createDOM
AbortsWithoutReturn(f, cssTransform, getContext, touch, c) ==
  [this |-> createDOM(f, touch, c),
   alerts |-> (IF cssTransform = "null" THEN 1 ELSE 0) + (IF ~getContext THEN 1 ELSE 0)]

\* lines 355-365: the instance and the number of alerts, for the fields f
Aborts(f, cssTransform, getContext, touch, c) ==
  IF cssTransform = "null" THEN [this |-> destroy(f, touch), alerts |-> 1]
  ELSE IF ~getContext THEN [this |-> destroy(f, touch), alerts |-> 1]
  ELSE [this |-> createDOM(f, touch, c), alerts |-> 0]

\* new Blockly.TimePicker(...) on a platform whose root.style is style and
\* whose canvas has getContext or not
TimePickerOn(style, getContext, k, touch, c) ==
  Aborts(Fields(k.isClock, k.is24H, k.showSecods, k.hour, k.minute, k.second, c),
         getSupportedTransformProp(style), getContext, touch, c)

Starts(t) ==
  /\ isClock = t.isClock /\ is24H = t.is24H /\ showSecods = t.showSecods
  /\ hour = t.hour /\ minute = t.minute /\ second = t.second
  /\ isPM = t.isPM /\ isReverseRotate = t.isReverseRotate
  /\ isDragging = t.isDragging /\ isFiredByMouse = t.isFiredByMouse
  /\ touchId = t.touchId /\ dragTarget = t.dragTarget
  /\ lastHourDeg = t.lastHourDeg /\ lastMinuteDeg = t.lastMinuteDeg
  /\ lastSecondDeg = t.lastSecondDeg /\ timerId = t.timerId
  /\ onUpdate = t.onUpdate /\ timers = t.timers
  /\ listeners = t.listeners /\ handsInDom = t.handsInDom
  /\ editorValue = t.editorValue /\ updates = t.updates

\* ------------------------------------------------------------------------
\* Bounds of the model
\* ------------------------------------------------------------------------
MaxTouch == 0        \* touch identifiers are 0..MaxTouch
MaxBinds == 2        \* bindClockEvents runs at most this often
MaxElapsed == 1      \* seconds the wall clock advances
MaxMoves == 1        \* pointer moves delivered during one drag

TouchIds == 0..MaxTouch
\* wall-clock second at construction: 15:59:59
StartTimes == {15 * 3600 + 59 * 60 + 59}
ClockTimes == UNION {st..(st + MaxElapsed) : st \in StartTimes}

\* the constructor calls of FieldTime (line 189, no time given): a live clock
\* and an editable 12-hour picker
Constructions ==
  { [isClock |-> TRUE, is24H |-> TRUE, showSecods |-> TRUE,
     hour |-> Undefined, minute |-> Undefined, second |-> Undefined],
    [isClock |-> FALSE, is24H |-> FALSE, showSecods |-> FALSE,
     hour |-> Undefined, minute |-> Undefined, second |-> Undefined] }

\* the hand pressed and the pointer positions of the events
PressedHands == {"minuteHand"}
Bearings == {354}
Pointers == {Pointer(b) : b \in Bearings}

\* ------------------------------------------------------------------------
\* Actions: what the user, the page and the owner of the picker do
\* ------------------------------------------------------------------------
\* what no method of the picker touches: the alerts raised at construction,
\* the field's value and the blocks of the workspace
Elsewhere == << alerts, value_, block, part, FieldTime >>
Page == << hasTouch, now, Elsewhere >>
Drag == << path, began >>

Time == [hour |-> hour, minute |-> minute, second |-> second, isPM |-> isPM]
NoTime == [hour |-> NaN, minute |-> NaN, second |-> NaN, isPM |-> FALSE]

\* a press that starts a drag opens a new path
Pressed(p) ==
  IF ~isDragging /\ isDragging'
  THEN path' = << p >> /\ began' = Time
  ELSE UNCHANGED Drag

\* a move during a drag is added to its path
Moved(p) ==
  /\ path' = IF isDragging THEN Append(path, p) ELSE path
  /\ UNCHANGED began

MouseDown(hand, p) ==
  /\ handsInDom
  /\ Becomes(Dispatch(This, hand, "mousedown", MouseEvent(hand, p)))
  /\ Pressed(p)
  /\ UNCHANGED Page

MouseMove(p) ==
  /\ Becomes(Dispatch(This, "document", "mousemove", MouseEvent("document", p)))
  /\ Moved(p)
  /\ UNCHANGED Page

MouseUp ==
  /\ Becomes(Dispatch(This, "document", "mouseup", MouseEvent("document", CentrePointer)))
  /\ UNCHANGED << Page, Drag >>

TouchStart(hand, n, changed) ==
  /\ handsInDom /\ hasTouch
  /\ Becomes(Dispatch(This, hand, "touchstart", TouchEvent(hand, n, changed)))
  /\ Pressed(changed[1].p)
  /\ UNCHANGED Page

\* touchmove, touchend and touchcancel go to the element the touch began on,
\* also when that element has left the document
TouchMove(hand, changed) ==
  /\ hasTouch
  /\ Becomes(Dispatch(This, hand, "touchmove", TouchEvent(hand, 1, changed)))
  /\ Moved(changed[1].p)
  /\ UNCHANGED Page

TouchEnd(hand, ev, changed) ==
  /\ hasTouch
  /\ Becomes(Dispatch(This, hand, ev, TouchEvent(hand, 0, changed)))
  /\ UNCHANGED << Page, Drag >>

\* the changed touches of an event: one touch, or two with distinct identifiers
ChangedTouches(ps) ==
  {<< Touch(i, p) >> : i \in TouchIds, p \in ps}
    \cup {ch \in {<< Touch(i, p), Touch(j, p) >> : i \in TouchIds, j \in TouchIds, p \in ps} :
            ch[1].identifier # ch[2].identifier}

\* the timer id fires: the callback is drawClockTime, d seconds later
Tick(id, d) ==
  /\ id \in timers
  /\ now + d \in ClockTimes
  /\ now' = now + d
  /\ Becomes(drawClockTime([This EXCEPT !.timers = @ \ {id}], now + d))
  /\ UNCHANGED << hasTouch, Drag, Elsewhere >>

TimePasses ==
  /\ timers = {}
  /\ now + 1 \in ClockTimes
  /\ now' = now + 1
  /\ UNCHANGED << isClock, is24H, showSecods, hour, minute, second, isPM,
                  isReverseRotate, isDragging, isFiredByMouse, touchId, dragTarget,
                  lastHourDeg, lastMinuteDeg, lastSecondDeg, timerId, onUpdate,
                  timers, listeners, handsInDom, editorValue, updates, hasTouch, Drag,
                  Elsewhere >>

\* how often bindClockEvents has registered the handlers
Binds == CopiesIn(Listener("document", "mousemove", Bound("onMouseMove")), listeners)

SetClockMode(m) ==
  /\ Becomes(setClockMode(This, m, hasTouch, now))
  /\ UNCHANGED << Page, Drag >>

SetHours(h) == Becomes(setHours(This, h)) /\ UNCHANGED << Page, Drag >>
SetMinutes(m) == Becomes(setMinutes(This, m)) /\ UNCHANGED << Page, Drag >>
SetSeconds(sc) == Becomes(setSeconds(This, sc)) /\ UNCHANGED << Page, Drag >>
SetAM == Becomes(setAM(This)) /\ UNCHANGED << Page, Drag >>
SetPM == Becomes(setPM(This)) /\ UNCHANGED << Page, Drag >>

Destroy == Becomes(destroy(This, hasTouch)) /\ UNCHANGED << Page, Drag >>

\* the events the document and a grabbed hand still receive after a press
PointerEvent ==
  \/ \E p \in Pointers : MouseMove(p)
  \/ MouseUp
  \/ \E h \in PressedHands, ch \in ChangedTouches(Pointers) : TouchMove(h, ch)
  \/ \E h \in PressedHands, ch \in ChangedTouches({CentrePointer}) :
       TouchEnd(h, "touchend", ch) \/ TouchEnd(h, "touchcancel", ch)

\* the picker by itself: no alert raised, no field value, no block
NoBlock == [inputList |-> << >>]
\* Blockly.FieldTime before any field is constructed: the prototype inherits
\* DEFAULT_VALUE from Blockly.Field ("null")
NoFields == [prototype |-> [DEFAULT_VALUE |-> "null"], instances |-> << >>]
PickerAlone ==
  alerts = 0 /\ value_ = "" /\ block = NoBlock /\ part = 1 /\ FieldTime = NoFields

Construct(k, touch, c) ==
  TimePicker(k.isClock, k.is24H, k.showSecods, k.hour, k.minute, k.second, touch, c)

\* ------------------------------------------------------------------------
\* Spec: the life of a picker, from its construction through mode switches,
\* presses, moves and ticks to its disposal and after.
\* ------------------------------------------------------------------------
Init ==
  /\ hasTouch \in BOOLEAN
  /\ now \in StartTimes
  /\ path = << >> /\ began = NoTime
  /\ PickerAlone
  /\ \E k \in Constructions : Starts(Construct(k, hasTouch, now))

Next ==
  \/ \E h \in PressedHands, p \in Pointers : MouseDown(h, p)
  \/ \E h \in PressedHands, n \in 1..2, i \in TouchIds, p \in Pointers :
       TouchStart(h, n, << Touch(i, p) >>)
  \/ Len(path) <= MaxMoves /\ PointerEvent
  \/ \E id \in timers, d \in 1..MaxElapsed : Tick(id, d)
  \/ TimePasses
  \/ \E m \in BOOLEAN : (m \/ Binds < MaxBinds) /\ SetClockMode(m)
  \/ Destroy

Spec == Init /\ [][Next]_vars

\* ------------------------------------------------------------------------
\* SpecMode: a picker whose owner switches it between live and editable
\* mode while its timer ticks, with presses and releases of the mouse and
\* its disposal in between.
\* ------------------------------------------------------------------------
NextMode ==
  \/ \E m \in BOOLEAN : (m \/ Binds < MaxBinds) /\ SetClockMode(m)
  \/ \E id \in timers, d \in 1..MaxElapsed : Tick(id, d)
  \/ TimePasses
  \/ \E h \in PressedHands, p \in Pointers : MouseDown(h, p)
  \/ MouseUp
  \/ Destroy

SpecMode == Init /\ [][NextMode]_vars

\* ------------------------------------------------------------------------
\* SpecSet: an editable 12-hour picker without seconds whose owner sets the
\* time, as FieldTime does with the two-digit texts cut from its value.
\* ------------------------------------------------------------------------
Hours == 0..23
Minutes == {0, 1, 15, 30, 45, 59}
Text(n) == Pad2("0" \o ToString(n))

\* the time not given (FieldTime), and given as midnight and as 13:00
SetConstructions ==
  { [isClock |-> FALSE, is24H |-> FALSE, showSecods |-> FALSE,
     hour |-> h, minute |-> IF h.given THEN Arg(0) ELSE Undefined,
     second |-> IF h.given THEN Arg(0) ELSE Undefined] :
    h \in {Undefined, Arg(0), Arg(13)} }

InitSet ==
  /\ hasTouch = FALSE
  /\ now \in StartTimes
  /\ path = << >> /\ began = NoTime
  /\ PickerAlone
  /\ \E k \in SetConstructions : Starts(Construct(k, hasTouch, now))

NextSet ==
  \/ \E n \in Hours : SetHours(Text(n))
  \/ \E n \in Minutes : SetMinutes(Text(n))
  \/ SetSeconds(Text(0))
  \/ SetAM
  \/ SetPM

SpecSet == InitSet /\ [][NextSet]_vars

\* ------------------------------------------------------------------------
\* SpecDrag: an editable picker showing a given time, and one mouse drag of
\* any of its hands.
\* ------------------------------------------------------------------------
DragTimes == { << 23, 59, 0 >>, << 11, 59, 54 >>, << 0, 0, 0 >>, << 12, 0, 0 >> }
DragBearings == {0, 6, 324, 354}
DragPointers == {Pointer(b) : b \in DragBearings}

Shown(tm) ==
  [isClock |-> FALSE, is24H |-> FALSE, showSecods |-> TRUE,
   hour |-> Arg(tm[1]), minute |-> Arg(tm[2]), second |-> Arg(tm[3])]

InitDrag ==
  /\ hasTouch = FALSE
  /\ now \in StartTimes
  /\ path = << >> /\ began = NoTime
  /\ PickerAlone
  /\ \E tm \in DragTimes : Starts(Construct(Shown(tm), hasTouch, now))

MouseMoves == \E p \in DragPointers : MouseMove(p)

NextDrag ==
  \/ \E h \in Hands, p \in DragPointers : path = << >> /\ MouseDown(h, p)
  \/ isDragging /\ Len(path) <= MaxMoves /\ MouseMoves
  \/ isDragging /\ MouseUp

SpecDrag == InitDrag /\ [][NextDrag]_vars

\* ------------------------------------------------------------------------
\* SpecRevolution: the minute hand is pressed where it points and is taken
\* clockwise, stride by stride, once around the dial.
\* ------------------------------------------------------------------------
RevolutionTimes ==
  { << h, m, 0 >> : h \in {0, 11, 12, 23}, m \in {0, 1, 30, 59} }
Strides == {60, 72}
FullTurn == 6 * 60

Bearing(p) == (p.deg + FullTurn) % FullTurn

\* degrees the pointer went clockwise along the path
RECURSIVE Turned(_)
Turned(ps) ==
  IF Len(ps) < 2 THEN 0
  ELSE ((Bearing(ps[2]) - Bearing(ps[1]) + FullTurn) % FullTurn) + Turned(Tail(ps))

InitRevolution ==
  /\ hasTouch = FALSE
  /\ now \in StartTimes
  /\ path = << >> /\ began = NoTime
  /\ PickerAlone
  /\ \E tm \in RevolutionTimes : Starts(Construct(Shown(tm), hasTouch, now))

NextRevolution ==
  \/ path = << >> /\ MouseDown("minuteHand", Pointer(FInt(lastMinuteDeg)))
  \/ \E d \in Strides :
       /\ isDragging /\ Turned(path) + d <= FullTurn
       /\ MouseMove(Pointer((Bearing(path[Len(path)]) + d) % FullTurn))
  \/ isDragging /\ Turned(path) = FullTurn /\ MouseUp

SpecRevolution == InitRevolution /\ [][NextRevolution]_vars

\* ------------------------------------------------------------------------
\* SpecText: an editable picker showing seconds whose owner sets the time
\* from the value of the field, two characters at a time (updateTimeEditor_,
\* lines 250-258): digits, and what else a typed value may hold.
\* ------------------------------------------------------------------------
Cuts == {"07", "59", "-5", ".5", "ab"}

TextConstructions ==
  { [isClock |-> FALSE, is24H |-> TRUE, showSecods |-> TRUE,
     hour |-> Undefined, minute |-> Undefined, second |-> Undefined] }

InitText ==
  /\ hasTouch = FALSE
  /\ now \in StartTimes
  /\ path = << >> /\ began = NoTime
  /\ PickerAlone
  /\ \E k \in TextConstructions : Starts(Construct(k, hasTouch, now))

NextText ==
  \/ \E tx \in Cuts : SetHours(tx)
  \/ \E tx \in Cuts : SetMinutes(tx)
  \/ \E tx \in Cuts : SetSeconds(tx)
  \/ SetAM
  \/ SetPM

SpecText == InitText /\ [][NextText]_vars

\* ------------------------------------------------------------------------
\* SpecGesture: an editable picker on a touch platform, with or without its
\* second hand, one of whose hands is pressed, dragged and released by mouse
\* or by touch, with further presses while the drag is on.
\* ------------------------------------------------------------------------
GestureTimes == { << 23, 59, 54 >> }
GestureBearings == {7, 200}
GesturePointers == {Pointer(b) : b \in GestureBearings}

GestureConstructions ==
  { [isClock |-> FALSE, is24H |-> FALSE, showSecods |-> secs,
     hour |-> Arg(tm[1]), minute |-> Arg(tm[2]), second |-> Arg(tm[3])] :
    secs \in BOOLEAN, tm \in GestureTimes }

InitGesture ==
  /\ hasTouch = TRUE
  /\ now \in StartTimes
  /\ path = << >> /\ began = NoTime
  /\ PickerAlone
  /\ \E k \in GestureConstructions : Starts(Construct(k, hasTouch, now))

MousePress == \E h \in Hands, p \in GesturePointers : MouseDown(h, p)

TouchPress ==
  \E h \in Hands, n \in 1..2, i \in TouchIds, p \in GesturePointers :
    TouchStart(h, n, << Touch(i, p) >>)

GestureMove ==
  \/ \E p \in GesturePointers : MouseMove(p)
  \/ \E ch \in ChangedTouches(GesturePointers) :
       dragTarget \in Hands /\ TouchMove(dragTarget, ch)

GestureEnd ==
  \/ MouseUp
  \/ \E ch \in ChangedTouches({CentrePointer}), ev \in {"touchend", "touchcancel"} :
       dragTarget \in Hands /\ TouchEnd(dragTarget, ev, ch)

NextGesture ==
  \/ (path = << >> \/ isDragging) /\ MousePress
  \/ (path = << >> \/ isDragging) /\ TouchPress
  \/ Len(path) <= MaxMoves /\ GestureMove
  \/ GestureEnd

SpecGesture == InitGesture /\ [][NextGesture]_vars

\* ------------------------------------------------------------------------
\* SpecTouch: a hand of an editable picker is dragged by one of two fingers
\* on the screen; the events of the other finger and of the mouse arrive
\* while the drag is on.
\* ------------------------------------------------------------------------
Fingers == 0..(MaxTouch + 1)

\* the changed touches of an event of these fingers: one touch, or two
ChangedTouchesOf(ids, ps) ==
  {<< Touch(i, p) >> : i \in ids, p \in ps}
    \cup {ch \in {<< Touch(i, p), Touch(j, p) >> : i \in ids, j \in ids, p \in ps} :
            ch[1].identifier # ch[2].identifier}

\* the event has a changed touch with the identifier recorded at the press
OfTrackedTouch(ch) == \E i \in 1..Len(ch) : ch[i].identifier = touchId

FingerPress ==
  \E h \in Hands, n \in 1..2, i \in Fingers, p \in GesturePointers :
    TouchStart(h, n, << Touch(i, p) >>)

FingerMove ==
  \E ch \in ChangedTouchesOf(Fingers, GesturePointers) :
    dragTarget \in Hands /\ TouchMove(dragTarget, ch)

FingerEnd ==
  \E ch \in ChangedTouchesOf(Fingers, {CentrePointer}), ev \in {"touchend", "touchcancel"} :
    dragTarget \in Hands /\ TouchEnd(dragTarget, ev, ch)

InitTouch == InitGesture

NextTouch ==
  \/ (path = << >> \/ isDragging) /\ FingerPress
  \/ Len(path) <= MaxMoves /\ FingerMove
  \/ FingerEnd
  \/ Len(path) <= MaxMoves /\ (\E p \in GesturePointers : MouseMove(p))
  \/ MouseUp

SpecTouch == InitTouch /\ [][NextTouch]_vars

\* ------------------------------------------------------------------------
\* SpecTurn: mouse drags on pickers whose hands stand in different
\* quadrants, so that one move takes a hand by more and by less than half a
\* turn, across the seam and away from it.
\* ------------------------------------------------------------------------
TurnTimes == { << 23, 59, 54 >>, << 10, 40, 0 >>, << 4, 7, 30 >> }
TurnBearings == {32, 190, 275}
TurnPointers == {Pointer(b) : b \in TurnBearings}

InitTurn ==
  /\ hasTouch = TRUE
  /\ now \in StartTimes
  /\ path = << >> /\ began = NoTime
  /\ PickerAlone
  /\ \E tm \in TurnTimes : Starts(Construct(Shown(tm), hasTouch, now))

TurnPress == \E h \in Hands, p \in TurnPointers : MouseDown(h, p)
TurnMove == \E p \in TurnPointers : MouseMove(p)

NextTurn ==
  \/ path = << >> /\ TurnPress
  \/ Len(path) <= MaxMoves /\ TurnMove
  \/ MouseUp

SpecTurn == InitTurn /\ [][NextTurn]_vars

\* ------------------------------------------------------------------------
\* SpecLive: a live clock, constructed with or without a time of its own at
\* 15:59:58, in the life of SpecMode.
\* ------------------------------------------------------------------------
LiveStartTimes == {st - 1 : st \in StartTimes}

LiveConstructions ==
  { [isClock |-> TRUE, is24H |-> TRUE, showSecods |-> TRUE,
     hour |-> tm[1], minute |-> tm[2], second |-> tm[3]] :
    tm \in { << Undefined, Undefined, Undefined >>, << Arg(10), Arg(30), Arg(0) >> } }

InitLive ==
  /\ hasTouch \in BOOLEAN
  /\ now \in LiveStartTimes
  /\ path = << >> /\ began = NoTime
  /\ PickerAlone
  /\ \E k \in LiveConstructions : Starts(Construct(k, hasTouch, now))

SpecLive == InitLive /\ [][NextMode]_vars

\* ------------------------------------------------------------------------
\* The time field (Blockly.FieldTime) and its value
\* ------------------------------------------------------------------------
Picker == << isClock, is24H, showSecods, hour, minute, second, isPM,
             isReverseRotate, isDragging, isFiredByMouse, touchId, dragTarget,
             lastHourDeg, lastMinuteDeg, lastSecondDeg, timerId, onUpdate,
             timers, listeners, handsInDom, updates >>

\* this.timeInput_ = null: the field has no picker, the prototype's values
NoPicker ==
  [isClock |-> FALSE, is24H |-> FALSE, showSecods |-> FALSE,
   hour |-> Num(0), minute |-> Num(0), second |-> Num(0), isPM |-> FALSE,
   isReverseRotate |-> FALSE, isDragging |-> FALSE, isFiredByMouse |-> FALSE,
   touchId |-> NoTouch, dragTarget |-> NoTarget,
   lastHourDeg |-> Num(0), lastMinuteDeg |-> Num(0), lastSecondDeg |-> Num(0),
   timerId |-> NoTimer, onUpdate |-> FALSE, timers |-> {},
   listeners |-> EmptyBag, handsInDom |-> FALSE, editorValue |-> "",
       updates |-> 0]

\* a value handed to the field: a text, or nothing (undefined, null)
Given(text) == [given |-> TRUE, text |-> text]
Absent == [given |-> FALSE, text |-> ""]
Null == [given |-> FALSE, text |-> "null"]

\* !opt_newValue, for a text or nothing
Falsy(v) == ~v.given \/ v.text = ""

\* hours that are no number reject the value
doClassValidationOfHours_(opt_newValue) ==
  IF Falsy(opt_newValue) \/ isNaN(SubSeq(opt_newValue.text \o " ", 1, 2))
  THEN Null ELSE opt_newValue

doClassValidation_(opt_newValue) ==
  IF Falsy(opt_newValue) THEN Null ELSE opt_newValue

\* Blockly.Field.prototype.setValue: a value the class validation turns into
\* null is dropped, any other becomes the value
setValue(v, newValue) ==
  IF doClassValidation_(newValue) = Null THEN v ELSE doClassValidation_(newValue).text

SetValue(newValue) ==
  /\ value_' = setValue(value_, newValue)
  /\ UNCHANGED << Picker, editorValue, hasTouch, now, Drag, alerts, block, part, FieldTime >>

\* The user types: the text of the editor is handed to the field as its new
\* value (onHtmlInputChange_ of the text input the field extends)
Type(text) ==
  /\ editorValue' = text
  /\ value_' = setValue(value_, Given(text))
  /\ UNCHANGED << Picker, hasTouch, now, Drag, alerts, block, part, FieldTime >>

\* ------------------------------------------------------------------------
\* SpecValue: a time field without seconds whose value is set to what the
\* user types, or to nothing.
\* ------------------------------------------------------------------------
Typed == {"", "0", "1", "5", "9", ":", " ", "-", ".", "a", "P"}
Texts == {a \o b : a \in Typed, b \in Typed}

\* Blockly.FieldTime.prototype.DEFAULT_VALUE with hideSeconds
DEFAULT_VALUE == "00:00"

InitValue ==
  /\ hasTouch = FALSE
  /\ now \in StartTimes
  /\ path = << >> /\ began = NoTime
  /\ alerts = 0 /\ block = NoBlock /\ part = 1 /\ FieldTime = NoFields
  /\ value_ = DEFAULT_VALUE
  /\ Starts(NoPicker)

NextValue ==
  \/ \E tx \in Texts : Type(tx)
  \/ SetValue(Absent)

SpecValue == InitValue /\ [][NextValue]_vars

\* ------------------------------------------------------------------------
\* Blockly.Cyb3rBlocks.AdvancedMutator.  The file holds two definitions of
\* the mutator and of its mixin; part says which of the two is loaded.  A
\* block is a record: advanced_mode is the block's field (first definition),
\* advancedMode_ the mutator's (second definition), mutator says whether the
\* block has an AdvancedMutator, onButton_ and offButton_ are the visibility
\* attributes of the two circles of the icon ("null" before drawIcon_), type
\* is the input list the block's init builds, dom the advanced_mode attribute
\* of the last mutation element and pasted the block loaded from it.
\* ------------------------------------------------------------------------
MaxInputs == 2

Input(advanced, visible) == [advanced_mode |-> advanced, visible |-> visible]

\* input.setVisible(true) on every input
showInputs(inputList) ==
  [i \in DOMAIN inputList |-> [inputList[i] EXCEPT !.visible = TRUE]]

\* input.setVisible(false) on every input flagged advanced_mode
hideAdvancedInputs(inputList) ==
  [i \in DOMAIN inputList |->
     IF inputList[i].advanced_mode THEN [inputList[i] EXCEPT !.visible = FALSE]
     ELSE inputList[i]]

Visibility(flag) == IF flag THEN "visible" ELSE "hidden"

\* first definition
updateButton(b) ==
  [b EXCEPT !.onButton_ = IF b.onButton_ # "null" THEN Visibility(b.advanced_mode) ELSE @,
            !.offButton_ = IF b.offButton_ # "null" THEN Visibility(~b.advanced_mode) ELSE @]

drawIcon_(b) ==
  [b EXCEPT !.onButton_ = Visibility(b.advanced_mode), !.offButton_ = Visibility(~b.advanced_mode)]

setBlock(b, defaultMode_) == [b EXCEPT !.advanced_mode = defaultMode_, !.mutator = TRUE]

\* setAdvancedMode with the two branches exchanged
setAdvancedModeExchanged(b, advanced) ==
  IF ~advanced
  THEN IF b.collapsed_ THEN [b EXCEPT !.advanced_mode = advanced]
       ELSE updateButton([b EXCEPT !.advanced_mode = advanced,
                                   !.inputList = showInputs(b.inputList)])
  ELSE updateButton([b EXCEPT !.advanced_mode = advanced,
                              !.inputList = hideAdvancedInputs(b.inputList)])

setAdvancedMode(b, advanced) ==
  IF advanced
  THEN IF b.collapsed_ THEN [b EXCEPT !.advanced_mode = advanced]
       ELSE updateButton([b EXCEPT !.advanced_mode = advanced,
                                   !.inputList = showInputs(b.inputList)])
  ELSE updateButton([b EXCEPT !.advanced_mode = advanced,
                              !.inputList = hideAdvancedInputs(b.inputList)])

\* Blockly.Icon.prototype.isVisible: the icon has no bubble
isVisible(b) == FALSE

\* Blockly.BlockSvg.prototype.updateCollapsed_: every input is shown on a
\* block that is not collapsed and hidden on one that is
updateCollapsed_(b) ==
  [b EXCEPT !.inputList =
     [i \in DOMAIN b.inputList |-> [b.inputList[i] EXCEPT !.visible = ~b.collapsed_]]]

\* Blockly.BlockSvg.prototype.render, for what it does to the inputs
render(b) == IF b.collapsed_ THEN updateCollapsed_(b) ELSE b

setVisible(b, visible) ==
  IF visible = isVisible(b) THEN updateButton(b)
  ELSE render(setAdvancedMode(b, ~b.advanced_mode))

\* ADVANCED_MODE_OVERRIDE_MIXIN: the mode put on the inputs again
modeApplied(b) ==
  IF b.mutator THEN setAdvancedMode(b, b.advanced_mode)
  ELSE [b EXCEPT !.inputList = hideAdvancedInputs(b.inputList)]

\* setCollapsed without lines 273-277
setCollapsedOfBlock(b, collapsed) ==
  IF b.collapsed_ = collapsed THEN b
  ELSE render(updateCollapsed_([b EXCEPT !.collapsed_ = collapsed]))

setCollapsed(b, collapsed) ==
  IF b.collapsed_ = collapsed THEN b
  ELSE IF ~collapsed
       THEN render(modeApplied(updateCollapsed_([b EXCEPT !.collapsed_ = collapsed])))
       ELSE render([b EXCEPT !.collapsed_ = collapsed])

\* Blockly.Icon.prototype.iconClick_ for a left click on a block of the
\* workspace: this.setVisible(!this.isVisible())
iconClickOfIcon_(b) == setVisible(b, ~isVisible(b))

\* iconClick_ without the test of isEditable
iconClickAnyway_(b) == iconClickOfIcon_(b)

iconClick_(b) == IF b.editable THEN iconClickOfIcon_(b) ELSE b

\* second definition
updateButtonSecond(b) ==
  [b EXCEPT !.onButton_ = IF b.onButton_ # "null" THEN Visibility(~b.advancedMode_) ELSE @,
            !.offButton_ = IF b.offButton_ # "null" THEN Visibility(b.advancedMode_) ELSE @]

drawIcon_Second(b) ==
  [b EXCEPT !.onButton_ = Visibility(~b.advancedMode_), !.offButton_ = Visibility(b.advancedMode_)]

setBlockSecond(b) == [b EXCEPT !.mutator = TRUE]

setAdvancedModeSecond(b, mode) ==
  updateButtonSecond(
    [b EXCEPT !.inputList = IF mode THEN hideAdvancedInputs(b.inputList)
                            ELSE showInputs(b.inputList),
              !.advancedMode_ = mode])

setVisibleSecond(b, visible) ==
  IF visible = isVisible(b) THEN updateButtonSecond(b)
  ELSE render(setAdvancedModeSecond(b, ~b.advancedMode_))

iconClickOfIcon_Second(b) == setVisibleSecond(b, ~isVisible(b))

iconClick_Second(b) == IF b.editable THEN iconClickOfIcon_Second(b) ELSE b

\* element.setAttribute with a boolean, and the two comparisons of
\* domToMutation with what getAttribute returns (a string equals true only
\* if it reads as the number 1)
ToAttribute(flag) == IF flag THEN "true" ELSE "false"
LooselyTrue(attribute) == attribute = "1"
IsTrueOnly(attribute) == LooselyTrue(attribute)
IsTrue(attribute) == LooselyTrue(attribute) \/ attribute = "true"

\* the mixins: mutationToDom gives the block after the call and the
\* attribute of the element
mutationToDom(b) ==
  [dom |-> ToAttribute(b.advanced_mode),
   block |-> IF b.mutator THEN setAdvancedMode(b, b.advanced_mode)
             ELSE [b EXCEPT !.inputList = hideAdvancedInputs(b.inputList)]]

domToMutation(b, attribute) ==
  IF b.mutator THEN setAdvancedMode(b, IsTrue(attribute))
  ELSE [b EXCEPT !.advanced_mode = IsTrue(attribute),
                 !.inputList = hideAdvancedInputs(b.inputList)]

mutationToDomSecond(b) == [dom |-> ToAttribute(b.advancedMode_), block |-> b]

domToMutationSecond(b, attribute) == setAdvancedModeSecond(b, IsTrue(attribute))

\* a block as its init and its extension leave it
Bare(inputList) ==
  [advanced_mode |-> FALSE, advancedMode_ |-> FALSE, mutator |-> FALSE,
   collapsed_ |-> FALSE, editable |-> TRUE,
   onButton_ |-> "null", offButton_ |-> "null",
   inputList |-> inputList, type |-> inputList, dom |-> "null", pasted |-> << >>]

\* ADVANCED_MODE_MUTATOR_EXTENSION: new AdvancedMutator(false), setMutator
ADVANCED_MODE_MUTATOR_EXTENSION(b) == setBlock(b, FALSE)
\* SIMPLE_MODE_MUTATOR_EXTENSION: no mutator
SIMPLE_MODE_MUTATOR_EXTENSION(b) == b
\* ADVANCED_MUTATOR_EXTENSION (second definition)
ADVANCED_MUTATOR_EXTENSION(b) == setBlockSecond(b)

NewBlock(p, withMutator, inputList) ==
  IF p = 2 THEN ADVANCED_MUTATOR_EXTENSION(Bare(inputList))
  ELSE IF withMutator THEN ADVANCED_MODE_MUTATOR_EXTENSION(Bare(inputList))
  ELSE SIMPLE_MODE_MUTATOR_EXTENSION(Bare(inputList))

\* what of a block a copy of it is compared by
Shape(b) ==
  [advanced_mode |-> b.advanced_mode, advancedMode_ |-> b.advancedMode_,
   inputList |-> b.inputList]

\* Blockly.Xml.blockToDom then domToBlock: the block is saved and a new block
\* of its type is loaded from the element
copied(p, b) ==
  IF p = 1
  THEN [mutationToDom(b).block EXCEPT
          !.dom = mutationToDom(b).dom,
          !.pasted = << Shape(domToMutation(NewBlock(1, b.mutator, b.type),
                                            mutationToDom(b).dom)) >>]
  ELSE [b EXCEPT
          !.dom = mutationToDomSecond(b).dom,
          !.pasted = << Shape(domToMutationSecond(NewBlock(2, TRUE, b.type),
                                                  mutationToDomSecond(b).dom)) >>]

\* the actions on the block
Others == << Picker, editorValue, hasTouch, now, Drag, alerts, value_, part, FieldTime >>

DrawIcon ==
  /\ block.mutator
  /\ block' = IF part = 1 THEN drawIcon_(block) ELSE drawIcon_Second(block)
  /\ UNCHANGED Others

SetVisible(visible) ==
  /\ block.mutator
  /\ block' = IF part = 1 THEN setVisible(block, visible)
              ELSE setVisibleSecond(block, visible)
  /\ UNCHANGED Others

SetAdvancedMode(mode) ==
  /\ block.mutator
  /\ block' = IF part = 1 THEN setAdvancedMode(block, mode)
              ELSE setAdvancedModeSecond(block, mode)
  /\ UNCHANGED Others

Copy ==
  /\ block' = copied(part, block)
  /\ UNCHANGED Others

IconClick ==
  /\ block.mutator
  /\ block' = IF part = 1 THEN iconClick_(block) ELSE iconClick_Second(block)
  /\ UNCHANGED Others

SetCollapsed(collapsed) ==
  /\ part = 1
  /\ block' = setCollapsed(block, collapsed)
  /\ UNCHANGED Others

\* block.setEditable(editable)
SetEditable(editable) ==
  /\ block' = [block EXCEPT !.editable = editable]
  /\ UNCHANGED Others

\* ------------------------------------------------------------------------
\* SpecMutator: a block of either definition, with up to MaxInputs inputs;
\* the inputs flagged advanced_mode are visible when the block is built, the
\* others are as the block's init left them.
\* ------------------------------------------------------------------------
Inputs == {Input(TRUE, TRUE), Input(FALSE, TRUE), Input(FALSE, FALSE)}
InputLists == UNION {[1..n -> Inputs] : n \in 1..MaxInputs}

InitMutator ==
  /\ hasTouch = FALSE
  /\ now \in StartTimes
  /\ path = << >> /\ began = NoTime
  /\ alerts = 0 /\ value_ = "" /\ FieldTime = NoFields
  /\ Starts(NoPicker)
  /\ part \in {1, 2}
  /\ \E withMutator \in BOOLEAN, inputList \in InputLists :
       block = NewBlock(part, withMutator, inputList)

NextMutator ==
  \/ DrawIcon
  \/ \E visible \in BOOLEAN : SetVisible(visible)
  \/ \E mode \in BOOLEAN : SetAdvancedMode(mode)
  \/ Copy

SpecMutator == InitMutator /\ [][NextMutator]_vars

\* ------------------------------------------------------------------------
\* SpecIcon: a block with an AdvancedMutator, editable or not, whose icon is
\* drawn and clicked.
\* ------------------------------------------------------------------------
InitIcon ==
  /\ hasTouch = FALSE
  /\ now \in StartTimes
  /\ path = << >> /\ began = NoTime
  /\ alerts = 0 /\ value_ = "" /\ FieldTime = NoFields
  /\ Starts(NoPicker)
  /\ part \in {1, 2}
  /\ \E inputList \in InputLists, editable \in BOOLEAN :
       block = [NewBlock(part, TRUE, inputList) EXCEPT !.editable = editable]

NextIcon ==
  \/ DrawIcon
  \/ IconClick
  \/ \E editable \in BOOLEAN : SetEditable(editable)
  \/ \E mode \in BOOLEAN : SetAdvancedMode(mode)

SpecIcon == InitIcon /\ [][NextIcon]_vars

\* ------------------------------------------------------------------------
\* SpecFields: several time fields are constructed, each from its own
\* configuration, and given values.  What a field shows as DEFAULT_VALUE is
\* the prototype's, no field has a property of that name of its own.
\* ------------------------------------------------------------------------
MaxFields == 2

Flag(option) == option \in {"true", "TRUE"}

\* lines 43-56 and, for value_, the constructor of Blockly.Field that line 64
\* calls with no opt_value
FieldOf(opt_config, prototype) ==
  [clockIsNow_ |-> Flag(opt_config.isNow) \/ opt_config.time = "NOW",
   use12Hours_ |-> Flag(opt_config.use12Hours),
   hideSeconds_ |-> Flag(opt_config.hideSeconds),
   textEditEnabled_ |-> Flag(opt_config.textEdit)
                        /\ ~(Flag(opt_config.isNow) \/ opt_config.time = "NOW"),
   timeInput_ |-> "null",
   value_ |-> prototype.DEFAULT_VALUE]

\* line 62
DefaultValueOf(hideSeconds_) == IF hideSeconds_ THEN "00:00" ELSE "00:00:00"

\* new Blockly.FieldTime(undefined, undefined, opt_config), lines 34-65
NewFieldTime(F, opt_config) ==
  [prototype |-> [F.prototype EXCEPT
                    !.DEFAULT_VALUE = DefaultValueOf(Flag(opt_config.hideSeconds))],
   instances |-> Append(F.instances,
                   FieldOf(opt_config,
                           [F.prototype EXCEPT
                              !.DEFAULT_VALUE = DefaultValueOf(Flag(opt_config.hideSeconds))]))]

Configs ==
  [isNow : {"true", "false"}, time : {"NOW", "12:00"}, use12Hours : {"true", "false"},
   hideSeconds : {"true", "false"}, textEdit : {"true", "false"}]

FieldValues == {"07:30"}

OtherThanFields == << Picker, editorValue, hasTouch, now, Drag, alerts, value_, block, part >>

NewField(opt_config) ==
  /\ Len(FieldTime.instances) < MaxFields
  /\ FieldTime' = NewFieldTime(FieldTime, opt_config)
  /\ UNCHANGED OtherThanFields

\* field.setValue(text) on the i-th field
SetValueOf(i, text) ==
  /\ i \in DOMAIN FieldTime.instances
  /\ FieldTime' = [FieldTime EXCEPT
                     !.instances[i].value_ = setValue(@, Given(text))]
  /\ UNCHANGED OtherThanFields

InitFields ==
  /\ hasTouch = FALSE
  /\ now \in StartTimes
  /\ path = << >> /\ began = NoTime
  /\ PickerAlone
  /\ Starts(NoPicker)

NextFields ==
  \/ \E opt_config \in Configs : NewField(opt_config)
  \/ \E i \in 1..MaxFields, text \in FieldValues : SetValueOf(i, text)

SpecFields == InitFields /\ [][NextFields]_vars

\* ------------------------------------------------------------------------
\* SpecCollapse: a rendered block of the first definition, with or without
\* the mutator, that is collapsed and expanded while its icon is clicked and
\* its mode set.
\* ------------------------------------------------------------------------
InitCollapse ==
  /\ hasTouch = FALSE
  /\ now \in StartTimes
  /\ path = << >> /\ began = NoTime
  /\ alerts = 0 /\ value_ = "" /\ FieldTime = NoFields
  /\ Starts(NoPicker)
  /\ part = 1
  /\ \E withMutator \in BOOLEAN, inputList \in InputLists :
       block = NewBlock(part, withMutator, inputList)

NextCollapse ==
  \/ DrawIcon
  \/ IconClick
  \/ \E mode \in BOOLEAN : SetAdvancedMode(mode)
  \/ \E collapsed \in BOOLEAN : SetCollapsed(collapsed)

SpecCollapse == InitCollapse /\ [][NextCollapse]_vars

\* ------------------------------------------------------------------------
\* SpecCallback: the picker of a field whose editor is open.  The field has
\* built it with dropdownCreate_ and installed onTimeChange_ as onUpdate; the
\* hands are dragged with the mouse, the clock ticks if it is live, and the
\* field disposes the picker when the editor closes.
\* ------------------------------------------------------------------------
FieldOptions == [clockIsNow_ : BOOLEAN, use12Hours_ : BOOLEAN, hideSeconds_ : BOOLEAN]

\* lines 237-258 for a field whose value is its DEFAULT_VALUE
updateTimeEditor_(t, hideSeconds_) ==
  IF hideSeconds_ THEN setMinutes(setHours(t, "00"), "00")
  ELSE setSeconds(setMinutes(setHours(t, "00"), "00"), "00")

\* line 197: setEditorValue_(timeInput_.getTimeString())
Shows(t) == [t EXCEPT !.editorValue = getTimeString(t)]

dropdownCreate_(f, touch, c) ==
  IF f.clockIsNow_
  THEN [TimePicker(f.clockIsNow_, ~f.use12Hours_, ~f.hideSeconds_,
                   Undefined, Undefined, Undefined, touch, c)
          EXCEPT !.onUpdate = TRUE]
  ELSE Shows(updateTimeEditor_(
         [TimePicker(f.clockIsNow_, ~f.use12Hours_, ~f.hideSeconds_,
                     Undefined, Undefined, Undefined, touch, c)
            EXCEPT !.onUpdate = TRUE], f.hideSeconds_))

\* dropdownDispose_ without line 208
dropdownDisposeWithCallback_(t, touch) == destroy(Shows(t), touch)

dropdownDispose_(t, touch) == destroy([Shows(t) EXCEPT !.onUpdate = FALSE], touch)

DropdownDispose ==
  /\ handsInDom
  /\ Becomes(dropdownDispose_(This, hasTouch))
  /\ UNCHANGED << Page, Drag >>

InitCallback ==
  /\ hasTouch = FALSE
  /\ now \in StartTimes
  /\ path = << >> /\ began = NoTime
  /\ PickerAlone
  /\ \E f \in FieldOptions : Starts(dropdownCreate_(f, hasTouch, now))

NextCallback ==
  \/ path = << >> /\ MousePress
  \/ Len(path) <= MaxMoves /\ (\E p \in GesturePointers : MouseMove(p))
  \/ MouseUp
  \/ \E id \in timers, d \in 1..MaxElapsed : Tick(id, d)
  \/ TimePasses
  \/ DropdownDispose

SpecCallback == InitCallback /\ [][NextCallback]_vars

\* ------------------------------------------------------------------------
\* SpecPlatform: a picker constructed by the field on a platform with or
\* without CSS transform and canvas, and what the page and the field do with
\* it afterwards.
\* ------------------------------------------------------------------------
Styles == { {}, {"transform"}, {"WebkitTransform", "OTransform"} }

\* line 189: the constructor call of the field, for each of its options
PlatformConstructions ==
  { [isClock |-> live, is24H |-> h24, showSecods |-> secs,
     hour |-> Undefined, minute |-> Undefined, second |-> Undefined] :
    live \in BOOLEAN, h24 \in BOOLEAN, secs \in BOOLEAN }

InitPlatform ==
  /\ hasTouch \in BOOLEAN
  /\ now \in StartTimes
  /\ path = << >> /\ began = NoTime
  /\ value_ = "" /\ block = NoBlock /\ part = 1 /\ FieldTime = NoFields
  /\ \E style \in Styles, getContext \in BOOLEAN, k \in PlatformConstructions :
       /\ Starts(TimePickerOn(style, getContext, k, hasTouch, now).this)
       /\ alerts = TimePickerOn(style, getContext, k, hasTouch, now).alerts

NextPlatform ==
  \/ \E h \in PressedHands, p \in Pointers : MouseDown(h, p)
  \/ \E h \in PressedHands, n \in 1..2, i \in TouchIds, p \in Pointers :
       TouchStart(h, n, << Touch(i, p) >>)
  \/ Len(path) <= MaxMoves /\ PointerEvent
  \/ \E id \in timers, d \in 1..MaxElapsed : Tick(id, d)
  \/ TimePasses
  \/ Destroy

SpecPlatform == InitPlatform /\ [][NextPlatform]_vars

\* ------------------------------------------------------------------------
\* Properties of the life of a picker (Spec, SpecMode)
\* ------------------------------------------------------------------------
\* the listeners one run of bindClockEvents registers
Registered(touch) ==
  {Listener(Bindings(touch)[i][1], Bindings(touch)[i][2], Bound(Bindings(touch)[i][3])) :
     i \in 1..Len(Bindings(touch))}

\* C1: once an editable picker has been destroyed, no mousemove, mouseup,
\* touchmove, touchend or touchcancel changes its time or its hand angles.
C1_DestroyedIgnoresPointer ==
  [][(~handsInDom /\ ~isClock /\ PointerEvent) => UNCHANGED clock]_vars

\* C2: once a live clock has been destroyed, no tick timer is pending.
C2_DestroyedHasNoTimer == (~handsInDom /\ isClock) => timers = {}

\* C3: while the picker is in the document, no handler is registered in live
\* mode and each handler is registered exactly once in editable mode.
C3_HandlersMatchMode ==
  handsInDom =>
    listeners = (IF isClock THEN EmptyBag ELSE SetToBag(Registered(hasTouch)))

\* C4: a tick timer is pending exactly in live mode, and never more than one.
C4_TimerIffLive ==
  /\ (timers # {}) <=> isClock
  /\ Cardinality(timers) <= 1

\* C4 witness: a clock made live by setClockMode after it had been editable,
\* drawn on the full minute, its one timer pending.
C4_Witness ==
  /\ isClock /\ Binds >= 1
  /\ timers = {timerId}
  /\ FEq(second, Num(0)) /\ now \notin StartTimes

\* ------------------------------------------------------------------------
\* Properties of setting the time (SpecSet)
\* ------------------------------------------------------------------------
\* the string shown for the given flags and time
Rendered(h24, secs, h, m, sc, pm) ==
  getTimeString([is24H |-> h24, showSecods |-> secs, hour |-> h, minute |-> m,
                 second |-> sc, isPM |-> pm])

\* what a 12-hour picker without seconds is to show at midnight and at 13:00
TwelveHourString(h24, secs, h, m, sc, pm) ==
  (~h24 /\ ~secs /\ FEq(m, Num(0))) =>
    /\ FEq(h, Num(0)) => Rendered(h24, secs, h, m, sc, pm) = "12:00 AM"
    /\ FEq(h, Num(13)) => Rendered(h24, secs, h, m, sc, pm) = "01:00 PM"

\* C5: in 12-hour mode without seconds, hour 0 minute 0 is rendered as
\* "12:00 AM" and hour 13 minute 0 as "01:00 PM", both when the constructor
\* was given the hour and after setHours set it.
C5_TwelveHourString ==
  /\ TwelveHourString(is24H, showSecods, hour, minute, second, isPM)
  /\ [][(\E n \in {0, 13} : SetHours(Text(n)))
        => TwelveHourString(is24H', showSecods', hour', minute', second', isPM')]_vars

\* C6: isPM is true exactly when the stored hour is 12 or more.
C6_PMIffAfternoon == isPM <=> FLe(Num(12), hour)

\* the drag-time derivation gives back the stored hour and minute
RoundTrips ==
  /\ FEq(TimeFromDegrees(This).hour, hour)
  /\ FEq(TimeFromDegrees(This).minute, minute)

\* C7: with second 0 and the hour H and minute M as set, H in the half of
\* the day isPM tells, the hand angles convert back to H and M.
C7_RoundTrip ==
  (~isClock /\ FEq(second, Num(0)) /\ (isPM <=> FLe(Num(12), hour))) => RoundTrips

\* ------------------------------------------------------------------------
\* Properties of a drag (SpecRevolution, SpecDrag)
\* ------------------------------------------------------------------------
Mod12(h) == FModI(h, 12)

\* C8: when the minute hand has been taken clockwise once around, from
\* H:M:00 back to its first bearing, the minute is M again, the hour on the
\* dial is one more, and isPM has changed exactly if the hour was 11 or 23.
C8_FullRevolution ==
  (dragTarget = "minuteHand" /\ Turned(path) = FullTurn) =>
    /\ FEq(minute, began.minute)
    /\ FEq(Mod12(hour), Mod12(FAdd(began.hour, Num(1))))
    /\ (isPM # began.isPM) <=> FEq(Mod12(began.hour), Num(11))

\* 23:59:00 PM
BeforeMidnight ==
  [hour |-> Num(23), minute |-> Num(59), second |-> Num(0), isPM |-> TRUE]

\* the minute hand was pressed at bearing 354 and moved to bearing 0
SixDegreesForward ==
  /\ dragTarget = "minuteHand"
  /\ path = << Pointer(354), Pointer(0) >>

\* C9: from 23:59:00 PM, moving the minute hand from bearing 354 to bearing 0
\* gives hour 0, minute 0 and isPM false.
C9_MidnightRollover ==
  (began = BeforeMidnight /\ SixDegreesForward) =>
    /\ FEq(hour, Num(0)) /\ FEq(minute, Num(0)) /\ ~isPM

\* C9 witness: that move has been made and the drag is still on.
C9_Witness == began = BeforeMidnight /\ SixDegreesForward /\ isDragging

\* the hour hand went from angle a to angle b through the 0/360 seam
Crossed(a, b) == FLt(Num(180), FAbs(FSub(b, a)))

\* C10: one move of a drag changes isPM exactly when it takes the hour hand
\* through the 0/360 seam, landing on 12:00:00 included, whichever hand is
\* dragged.
C10_TogglesOnCrossing ==
  [][(isDragging /\ MouseMoves)
     => ((isPM' # isPM) <=> Crossed(lastHourDeg, lastHourDeg'))]_vars

\* ------------------------------------------------------------------------
\* Properties of the hand angles and of the time read from them
\* ------------------------------------------------------------------------
\* 0 <= x < 360
InDial(x) == FLe(Num(0), x) /\ FLt(x, Num(360))

\* C11: the angle of every hand is at least 0 and less than 360, whatever
\* text the field hands to setHours, setMinutes and setSeconds.
C11_DegreesNormalized ==
  InDial(lastHourDeg) /\ InDial(lastMinuteDeg) /\ InDial(lastSecondDeg)

\* x is an integer from lo to hi
IntegerIn(x, lo, hi) == FIsInt(x) /\ FLe(Num(lo), x) /\ FLe(x, Num(hi))

\* C12: through every drag of every hand the hour is an integer in 0..23 and
\* the minute and the second are integers in 0..59.
C12_TimeInRange ==
  /\ IntegerIn(hour, 0, 23)
  /\ IntegerIn(minute, 0, 59)
  /\ IntegerIn(second, 0, 59)

\* C12 witness: a hand has been pressed and moved, and the time read back
\* from the angles is not the time the picker held at the press.
C12_Witness ==
  /\ Len(path) = 2 /\ isDragging
  /\ ~(FEq(hour, began.hour) /\ FEq(minute, began.minute) /\ FEq(second, began.second))

\* C13: an editable picker that hides its seconds holds second 0, also after
\* every move of a drag.
C13_HiddenSecondIsZero == (~isClock /\ ~showSecods) => FEq(second, Num(0))

\* ------------------------------------------------------------------------
\* Properties of a gesture (SpecGesture)
\* ------------------------------------------------------------------------
\* a mousedown on a hand, or a touchstart on a hand while the mouse drags
PressWhileDragging ==
  /\ isDragging
  /\ MousePress \/ (isFiredByMouse /\ TouchPress)

\* a mousemove or a touchmove while a drag is on; Moved adds it to the path
MoveWhileDragging ==
  /\ isDragging
  /\ Len(path') = Len(path) + 1
  /\ GestureMove

\* C15: while a drag is on, a mousedown on any hand and a touchstart during
\* a drag by mouse leave the drag target, the reverse flag, the time and the
\* hand angles as they are, and no move of the drag changes the drag target.
C15_OneDragTarget ==
  /\ [][UNCHANGED << dragTarget, isReverseRotate, clock >> \/ ~PressWhileDragging]_vars
  /\ [][UNCHANGED dragTarget \/ ~MoveWhileDragging]_vars

\* C15 witness: the mouse drags the hour hand, which has been moved, and the
\* other hands can still be pressed.
C15_Witness ==
  /\ isDragging /\ isFiredByMouse /\ dragTarget = "hourHand" /\ Len(path) = 2
  /\ ENABLED PressWhileDragging

\* ------------------------------------------------------------------------
\* Properties of the live clock (SpecLive)
\* ------------------------------------------------------------------------
\* the timer of the picker fires
Ticks == \E id \in timers, d \in 1..MaxElapsed : Tick(id, d)

\* C14: after every tick of a live clock its hour, minute and second are
\* those of the wall clock at the tick.
C14_TickShowsWallClock ==
  [][(isClock /\ Ticks) => /\ FEq(hour', getHours(now'))
                           /\ FEq(minute', getMinutes(now'))
                           /\ FEq(second', getSeconds(now'))]_vars

C17_AbortedConstruction ==
  alerts > 0 =>
    /\ alerts = 1
    /\ ~handsInDom
    /\ listeners = EmptyBag
    /\ timers = {} /\ timerId = NoTimer

\* C17 witness: a live clock whose construction was aborted, a second later.
C17_Witness == alerts = 1 /\ isClock /\ now \notin StartTimes

\* ------------------------------------------------------------------------
\* Properties of the advanced mode of a block (SpecMutator)
\* ------------------------------------------------------------------------
AllVisible(inputList) == \A i \in DOMAIN inputList : inputList[i].visible

\* C18: on a block that is not collapsed, setAdvancedMode(true) leaves every
\* input visible; setAdvancedMode(false) leaves every input flagged
\* advanced_mode hidden and the visibility of the other inputs as it was.
C18_ModeShowsAndHides ==
  /\ [][(~block.collapsed_ /\ SetAdvancedMode(TRUE)) => AllVisible(block'.inputList)]_vars
  /\ [][(~block.collapsed_ /\ SetAdvancedMode(FALSE)) =>
          \A i \in DOMAIN block.inputList :
            IF block.inputList[i].advanced_mode THEN ~block'.inputList[i].visible
            ELSE block'.inputList[i].visible = block.inputList[i].visible]_vars

toggled(p, b) == IF p = 1 THEN setVisible(b, TRUE) ELSE setVisibleSecond(b, TRUE)
ModeOf(p, b) == IF p = 1 THEN b.advanced_mode ELSE b.advancedMode_
VisibleInputs(inputList) == {i \in DOMAIN inputList : inputList[i].visible}
AdvancedInputs(inputList) == {i \in DOMAIN inputList : inputList[i].advanced_mode}

\* C19: in every reachable state of a block with an AdvancedMutator, two
\* calls of setVisible(true) in a row give back the mode and the set of
\* visible inputs the block has now.
C19_TwoTogglesRestore ==
  block.mutator =>
    /\ ModeOf(part, toggled(part, toggled(part, block))) = ModeOf(part, block)
    /\ VisibleInputs(toggled(part, toggled(part, block)).inputList)
         = VisibleInputs(block.inputList)

\* C20: when a block is saved by mutationToDom and a new block of its type
\* is loaded from the element by domToMutation, the new block has the mode
\* of the saved block, and each input flagged advanced_mode is visible in
\* the new block exactly if it is in the saved block as mutationToDom left
\* it.
C20_SaveLoadKeepsMode ==
  [][Copy =>
       /\ ModeOf(part, block'.pasted[1]) = ModeOf(part, block')
       /\ \A i \in AdvancedInputs(block'.inputList) :
            block'.pasted[1].inputList[i].visible = block'.inputList[i].visible]_vars

\* C20 witness: a block with an input flagged advanced_mode was saved with
\* the attribute "true" and a new block loaded from it, under each
\* definition.
C20_Witness ==
  /\ block.dom = "true" /\ block.pasted # << >>
  /\ AdvancedInputs(block.inputList) # {}
  /\ ModeOf(part, block.pasted[1])

\* ------------------------------------------------------------------------
\* Properties of the icon of the mutator (SpecIcon)
\* ------------------------------------------------------------------------
\* C21: a click on the icon of a block that is not editable leaves the mode,
\* the visibility of every input and the two buttons as they were.
C21_ClickOnLockedBlock ==
  [][(~block.editable /\ IconClick) =>
       /\ ModeOf(part, block') = ModeOf(part, block)
       /\ block'.inputList = block.inputList
       /\ block'.onButton_ = block.onButton_
       /\ block'.offButton_ = block.offButton_]_vars

\* C21 witness: a block that is not editable, in the mode that hides its
\* flagged input, with its icon drawn, and the icon can be clicked.
C21_Witness ==
  /\ ~block.editable /\ block.onButton_ # "null"
  /\ \E i \in AdvancedInputs(block.inputList) : ~block.inputList[i].visible
  /\ ENABLED IconClick

\* ------------------------------------------------------------------------
\* Properties of several fields (SpecFields)
\* ------------------------------------------------------------------------
\* C22: constructing a field, or setting the value of a field, changes
\* nothing that another field shows: neither its own properties nor the
\* DEFAULT_VALUE read through it.
C22_NothingShared ==
  [][\A j \in DOMAIN FieldTime.instances :
       ((\E opt_config \in Configs : NewField(opt_config))
        \/ (\E i \in DOMAIN FieldTime.instances \ {j}, text \in FieldValues :
              SetValueOf(i, text)))
       => /\ FieldTime'.instances[j] = FieldTime.instances[j]
          /\ FieldTime'.prototype.DEFAULT_VALUE = FieldTime.prototype.DEFAULT_VALUE]_vars

\* ------------------------------------------------------------------------
\* Properties of the arithmetic of a drag (SpecGesture)
\* ------------------------------------------------------------------------
\* the signed shortest turn from bearing a to bearing b, in (-180, 180]
ShortestTurn(a, b) ==
  IF FLt(Num(180), FSub(b, a)) THEN FSub(FSub(b, a), Num(360))
  ELSE IF FLe(FSub(b, a), Num(-180)) THEN FAdd(FSub(b, a), Num(360))
  ELSE FSub(b, a)

\* the whole degrees of the bearing a move uses: the pointer's, half a turn
\* less in a reversed gesture, in 0..359
Used(p) ==
  IF isReverseRotate THEN (p.deg - 180 + FullTurn) % FullTurn ELSE Bearing(p)

MouseDrags(hand, p) ==
  isDragging /\ isFiredByMouse /\ dragTarget = hand /\ MouseMove(p)

\* C24: a move of the dragged hour hand to bearing d leaves the minute hand
\* at (d mod 30) * 12, the hour at floor(d / 30) modulo 12 and the minute
\* at floor((d mod 30) * 2), whatever minute and second were shown.
C24_HourHandSetsMinute ==
  [][\A p \in TurnPointers :
       MouseDrags("hourHand", p) =>
         /\ FEq(lastMinuteDeg', Num((Used(p) % 30) * 12))
         /\ FEq(Mod12(hour'), Num(Used(p) \div 30))
         /\ FEq(minute', Num((Used(p) % 30) * 2))]_vars

\* the angle the hand h was last drawn at
LastDegOf(h) ==
  IF h = "hourHand" THEN lastHourDeg
  ELSE IF h = "minuteHand" THEN lastMinuteDeg ELSE lastSecondDeg

\* C25: the press that starts a drag sets isReverseRotate exactly when the
\* bearing of the pointer, in [0, 360), and the last angle of the hand
\* grabbed differ by more than 160 and less than 200 degrees; the flag keeps
\* its value while the drag lasts; a move of the hour hand puts the hour at
\* the bearing used, which is the pointer's less 180 degrees, brought into
\* [0, 360), when the flag is set.
C25_ReverseRotation ==
  /\ [][\A h \in Hands, p \in TurnPointers :
          (~isDragging /\ MouseDown(h, p)) =>
            (isReverseRotate' <=>
               Within(160, FAbs(FSub(Num(Bearing(p)), LastDegOf(h))), 200))]_vars
  /\ [][(isDragging /\ isDragging') => isReverseRotate' = isReverseRotate]_vars
  /\ [][\A p \in TurnPointers :
          MouseDrags("hourHand", p) => FEq(Mod12(hour'), Num(Used(p) \div 30))]_vars

\* the angles x and y are less than one degree apart on the dial
Near(x, y) ==
  \/ FLt(Normalized(FSub(x, y)), Num(1))
  \/ FLt(Num(359), Normalized(FSub(x, y)))

\* C23: a move of the dragged minute hand from bearing a to bearing b turns
\* the hour hand by d / 12 modulo 360, d the signed shortest turn from a to
\* b, whatever the two bearings are.  The hand angles are the ones the
\* handler leaves, which updateClock has rounded to the second shown, so the
\* hour hand is asked to be within one degree of where the claim puts it.
C23_HourFollowsMinute ==
  [][(isDragging /\ dragTarget = "minuteHand" /\ TurnMove) =>
       Near(lastHourDeg',
            FAdd(lastHourDeg,
                 FDivI(ShortestTurn(lastMinuteDeg, lastMinuteDeg'), 12)))]_vars

\* ------------------------------------------------------------------------
\* Properties of the mode of a block (SpecMutator, SpecCollapse)
\* ------------------------------------------------------------------------
\* C26: in every reachable state of a block of the first definition that is
\* not collapsed, the inputs agree with the mode: with advanced_mode false
\* every input flagged advanced_mode is hidden, with advanced_mode true
\* every input is visible.
C26_InputsAgreeWithMode ==
  (part = 1 /\ ~block.collapsed_) =>
    IF block.advanced_mode THEN AllVisible(block.inputList)
    ELSE \A i \in AdvancedInputs(block.inputList) : ~block.inputList[i].visible

\* C27: collapsing a block leaves advanced_mode as it is, and so does
\* expanding it; after the expansion the inputs flagged advanced_mode are
\* visible if advanced_mode is true and hidden if it is not, whatever was
\* done to the mode while the block was collapsed.
C27_ExpandedAsItsMode ==
  /\ [][(\E collapsed \in BOOLEAN : SetCollapsed(collapsed)) =>
          block'.advanced_mode = block.advanced_mode]_vars
  /\ [][(block.collapsed_ /\ SetCollapsed(FALSE)) =>
          \A i \in AdvancedInputs(block.inputList) :
            block'.inputList[i].visible = block.advanced_mode]_vars

\* C27 witness: a collapsed block with a flagged input whose mode was set to
\* advanced while it was collapsed (the on button was not updated), about
\* to be expanded.
C27_Witness ==
  /\ block.collapsed_ /\ block.advanced_mode /\ block.onButton_ = "hidden"
  /\ AdvancedInputs(block.inputList) # {}
  /\ ENABLED SetCollapsed(FALSE)

\* ------------------------------------------------------------------------
\* Properties of the callback (SpecCallback)
\* ------------------------------------------------------------------------
\* what getTimeString reads, after the step
Next_This ==
  [is24H |-> is24H', showSecods |-> showSecods', isPM |-> isPM',
   hour |-> hour', minute |-> minute', second |-> second']

\* C30: a move of a mouse drag on an editable picker with its callback
\* installed calls onUpdate once, with the string getTimeString gives for
\* the time after the move; onUpdate is not called in a step of a live
\* clock, nor in a step of a picker the field has disposed.
C30_OneUpdatePerMove ==
  /\ [][\A p \in GesturePointers :
          (onUpdate /\ ~isClock /\ isDragging /\ isFiredByMouse /\ MouseMove(p)) =>
            updates' = 1 /\ editorValue' = getTimeString(Next_This)]_vars
  /\ [](isClock => updates = 0)
  /\ [](~handsInDom => updates = 0)

\* C30 witness: a hand was dragged by one move on a 12-hour picker, the
\* callback ran once and the editor shows the time after the move.
C30_Witness ==
  /\ updates = 1 /\ isDragging /\ Len(path) = 2 /\ ~is24H
  /\ editorValue = getTimeString(This)

\* ------------------------------------------------------------------------
\* Properties of an ended drag (SpecGesture)
\* ------------------------------------------------------------------------
\* C28: after a drag has ended and before the next press, a mousemove or a
\* touchmove changes neither the time, nor an angle of a hand, nor the
\* drag state.
C28_IdleMovesChangeNothing ==
  [][(~isDragging /\ path # << >> /\ GestureMove) =>
       UNCHANGED << clock, isDragging, dragTarget, editorValue >>]_vars

\* C28 witness: a hand was pressed and released; moves of the mouse and of
\* the touch that pressed it are delivered to the picker.
C28_Witness ==
  /\ ~isDragging /\ path # << >> /\ dragTarget \in Hands
  /\ Len(path) <= MaxMoves
  /\ ENABLED GestureMove

\* ------------------------------------------------------------------------
\* Properties of a touch drag (SpecTouch)
\* ------------------------------------------------------------------------
TouchDrag == isDragging /\ ~isFiredByMouse /\ dragTarget \in Hands

\* C29: during a touch drag, a touchmove, touchend or touchcancel none of
\* whose changed touches has the identifier recorded at the press, and any
\* mousemove or mouseup, leaves the time, the angles of the hands and
\* isDragging as they were.
C29_OnlyTheStartingTouch ==
  [][/\ \A ch \in ChangedTouchesOf(Fingers, GesturePointers) :
          (TouchDrag /\ ~OfTrackedTouch(ch) /\ TouchMove(dragTarget, ch)) =>
            UNCHANGED << clock, isDragging, touchId, dragTarget >>
     /\ \A ch \in ChangedTouchesOf(Fingers, {CentrePointer}), ev \in {"touchend", "touchcancel"} :
          (TouchDrag /\ ~OfTrackedTouch(ch) /\ TouchEnd(dragTarget, ev, ch)) =>
            UNCHANGED << clock, isDragging, touchId, dragTarget >>
     /\ (TouchDrag /\ ((\E p \in GesturePointers : MouseMove(p)) \/ MouseUp)) =>
            UNCHANGED << clock, isDragging, touchId, dragTarget >>]_vars

\* C29 witness: finger 1 holds a hand, a move of another pointer was
\* delivered, and the picker still shows the time it was built with.
C29_Witness ==
  /\ TouchDrag /\ touchId = 1 /\ Len(path) = 2 /\ path[2] # path[1]
  /\ hour = Num(23) /\ minute = Num(59) /\ second = Num(54)

====
